---------------------------- MODULE Spec2Model ----------------------------
(***************************************************************************)
(* Model of renderdoc/driver/d3d12/d3d12_postvs.cpp: the D3D12 post-vertex *)
(* -shader capture (stream-out scratch pool, per-draw capture, result      *)
(* cache and event aliasing).                                              *)
(*                                                                         *)
(* Units.  m_SOBufferSize and every outputSize are counted in 4-byte words *)
(* (every such quantity in the source is a multiple of 4 bytes), because   *)
(* the 0xFFFF0000 guard does not fit a 32-bit model integer in bytes.      *)
(* Strides, byte counters and buffer offsets are counted in bytes.         *)
(*                                                                         *)
(* Variants.  A definition named X_Y is the definition X with one mistake  *)
(* made in it; no specification uses a variant.                            *)
(***************************************************************************)
EXTENDS Integers, Sequences, FiniteSets, TLC

\* ------------------------------------------------------------------ bounds

\* Draw identifiers ("event ids") of the captured frame are 1..MaxEvent.
MaxEvent == 2

\* Outstanding Map calls on the staging buffer the model follows.
MaxMapCount == 2

\* Bytes left in the filled-size counter by earlier captures that the model
\* follows.
MaxCounter == 384

\* Capacity (in words) of the scratch pool when the replay starts.
InitSOBufferSize == 32

\* --------------------------------------------------------- program constants

\* 0xFFFF0000 bytes, in words.
SOSizeLimit == 1073725440

\* The stream-out counter region at the start of m_SOBuffer: 64 bytes, in words.
CounterWords == 16

\* sizeof(Vec4f) in words.
Vec4fWords == 4

\* Instances between two forced flushes of the incremental draws.
FlushInterval == 1000

EventIds == 1..MaxEvent

\* A buffer object is a tuple <<name, event id, contents>>; NULL is no object.
NULL == <<>>

Max(a, b) == IF a >= b THEN a ELSE b
Min(a, b) == IF a <= b THEN a ELSE b
Abs(a) == IF a < 0 THEN -a ELSE a

\* AlignUp(x, a) for a power of two a.
AlignUp(x, a) == ((x + a - 1) \div a) * a

\* ------------------------------------------------------------- float values
\* A float is the rational <<n, d>> with d > 0 in lowest terms; FLT_MAX is
\* <<1, 0>>.

RECURSIVE Gcd(_, _)
Gcd(a, b) == IF b = 0 THEN a ELSE Gcd(b, a % b)

Rat(n, d) ==
    LET g == Gcd(Abs(n), Abs(d))
        s == IF d < 0 THEN -1 ELSE 1
    IN  IF n = 0 THEN <<0, 1>> ELSE <<(s * n) \div g, (s * d) \div g>>

FLT_MAX == <<1, 0>>
DefaultNear == Rat(1, 10)
DefaultFar == Rat(100, 1)
Zero == Rat(0, 1)


\* ------------------------------------------------------------ result cache

\* One stage's result (D3D12PostVSData::StageData), with every field empty.
EmptyStage ==
    [status |-> "", buf |-> NULL, idxBuf |-> NULL, idxFmt |-> "UNKNOWN",
     vertStride |-> 0, instStride |-> 0, numVerts |-> 0,
     nearPlane |-> Zero, farPlane |-> Zero, hasPosOut |-> FALSE,
     useIndices |-> FALSE, topo |-> "UNDEFINED", instData |-> <<>>]

\* A cache entry with nothing in it: a new map element, or RDCEraseEl(postvs).
D3D12PostVSData == [vsin |-> EmptyStage, vsout |-> EmptyStage, gsout |-> EmptyStage]

Stages == {"VSOut", "GSOut"}

\* D3D12PostVSData::GetStage.
GetStage(postvs, stage) == IF stage = "VSOut" THEN postvs.vsout ELSE postvs.gsout

\* ------------------------------------------------------ declaration builder

\* One D3D12_SO_DECLARATION_ENTRY of a signature parameter: a clip-space
\* position is always captured with four components.
DeclEntry(sign) ==
    [SemanticName |-> sign.semanticName,
     ComponentCount |-> IF sign.systemValue = "Position" THEN 4
                        ELSE sign.compCount % 256]

RECURSIVE SumComponents(_)
SumComponents(decls) ==
    IF decls = <<>> THEN 0
    ELSE Head(decls).ComponentCount + SumComponents(Tail(decls))

\* posidx after the loop: the 0-based index of the last position parameter,
\* -1 when there is none.
PosIdx(sig) ==
    LET P == {i \in 1..Len(sig) : sig[i].systemValue = "Position"}
    IN  IF P = {} THEN -1 ELSE (CHOOSE i \in P : \A j \in P : j <= i) - 1

\* The position exchanged with the first entry.
ShiftPosition_Swap(decls, posidx) ==
    IF posidx > 0
    THEN [i \in 1..Len(decls) |->
            IF i = 1 THEN decls[posidx + 1]
            ELSE IF i = posidx + 1 THEN decls[1] ELSE decls[i]]
    ELSE decls

\* sodecls.erase(posidx); sodecls.insert(0, pos) when posidx > 0.
ShiftPosition(decls, posidx) ==
    IF posidx > 0
    THEN <<decls[posidx + 1]>> \o SubSeq(decls, 1, posidx)
         \o SubSeq(decls, posidx + 2, Len(decls))
    ELSE decls

\* The vertex pass' declaration, built from a non-empty output signature.
VSDecl(sig) ==
    LET decls == [i \in 1..Len(sig) |-> DeclEntry(sig[i])]
        sum == SumComponents(decls) * 4
        posidx == PosIdx(sig)
    IN  [sodecls |-> ShiftPosition(decls, posidx),
         stride |-> IF sum = 0 THEN 4 ELSE sum,
         posidx |-> posidx,
         numPosComponents |-> IF posidx >= 0 THEN 4 ELSE 0]

\* The geometry/tessellation pass' declaration: parameters of streams other
\* than 0 are skipped, and the stride is the plain sum.
GSDecl(sig) ==
    LET sig0 == SelectSeq(sig, LAMBDA sign : sign.stream = 0)
        decls == [i \in 1..Len(sig0) |-> DeclEntry(sig0[i])]
        posidx == PosIdx(sig0)
    IN  [sodecls |-> ShiftPosition(decls, posidx),
         stride |-> SumComponents(decls) * 4,
         posidx |-> posidx,
         numPosComponents |-> IF posidx >= 0 THEN 4 ELSE 0]

\* ------------------------------------------------------------ index rebaser
\* A uint32_t index value is the two's-complement integer of the same 32 bits
\* (0xFFFFFFFF is -1), compared as the unsigned value it stands for.

ULess(a, b) == IF (a >= 0) = (b >= 0) THEN a < b ELSE a >= 0

\* The index value put at the end, whatever is there.
InsertUnique_Append(indices, i32) == Append(indices, i32)

\* indices after one more index value: std::lower_bound, then insert unless
\* the value is there already.
InsertUnique(indices, i32) ==
    LET below == {k \in 1..Len(indices) : ULess(indices[k], i32)}
        at == Cardinality(below) + 1
    IN  IF at <= Len(indices) /\ indices[at] = i32 THEN indices
        ELSE SubSeq(indices, 1, at - 1) \o <<i32>> \o SubSeq(indices, at, Len(indices))

RECURSIVE UniqueIndices(_, _)
UniqueIndices(idxdata, indices) ==
    IF idxdata = <<>> THEN indices
    ELSE UniqueIndices(Tail(idxdata), InsertUnique(indices, Head(idxdata)))

\* The bytes GetBufferData returns, as whole indices: none without a bound
\* index buffer, else at most numIndices of what the buffer holds.
IdxData(ibuffer, numIndices) ==
    IF ibuffer.buf /\ Len(ibuffer.data) > 0
    THEN SubSeq(ibuffer.data, 1, Min(numIndices, Len(ibuffer.data)))
    ELSE <<>>

\* An out-of-bounds read that adds index 0 whether it is there or not.
Indices_InsertAlways(idxdata, numIndices) ==
    LET read == Min(Len(idxdata), numIndices)
        indices == UniqueIndices(SubSeq(idxdata, 1, read), <<>>)
    IN  IF read < numIndices THEN <<0>> \o indices ELSE indices

\* The unique sorted indices the draw references; an out-of-bounds read adds
\* index 0.
Indices(idxdata, numIndices) ==
    LET read == Min(Len(idxdata), numIndices)
        indices == UniqueIndices(SubSeq(idxdata, 1, read), <<>>)
    IN  IF read < numIndices /\ (indices = <<>> \/ indices[1] # 0)
        THEN <<0>> \o indices
        ELSE indices

\* indexRemap[i32]: the 0-based place of i32 in indices.
IndexRemap(indices, i32) == (CHOOSE k \in 1..Len(indices) : indices[k] = i32) - 1

\* No restart index, whatever the pipeline says.
StripCutValue_None(IBStripCutValue) == 0

StripCutValue(IBStripCutValue) ==
    IF IBStripCutValue = "0xFFFF" THEN 65535
    ELSE IF IBStripCutValue = "0xFFFFFFFF" THEN -1
    ELSE 0

\* The index buffer rewritten to point into the tightly packed output;
\* primitive restart indices are kept.
RebasedIdxData(idxdata, indices, stripCutValue, bytewidth) ==
    [i \in 1..Len(idxdata) |->
        IF stripCutValue # 0 /\ idxdata[i] = stripCutValue THEN idxdata[i]
        ELSE IF bytewidth = 2 THEN IndexRemap(indices, idxdata[i]) % 65536
        ELSE IndexRemap(indices, idxdata[i])]

\* ---------------------------------------------------------- near/far planes
\* A clip-space sample is [z |-> .., w |-> ..], both in hundredths.

\* nearp/farp before any pair is accepted.
NoPlanes == [found |-> FALSE, nearp |-> DefaultNear, farp |-> DefaultFar]

\* The planes of a pair, whatever the sign of the near plane.
PairPlanes_AnyNear(pos0, pos) ==
    LET dz == pos.z - pos0.z
        dw == pos.w - pos0.w
        cn == pos.z * dw - pos.w * dz
    IN  IF ~(Abs(dw) > 1 /\ Abs(dz) > 1) THEN NoPlanes
        ELSE IF dz = dw \/ cn = 0 THEN NoPlanes
        ELSE [found |-> TRUE, nearp |-> Rat(-cn, 100 * dz),
              farp |-> Rat(cn, 100 * (dw - dz))]

\* The planes the pair (pos0, pos) gives; not found when the pair is skipped.
PairPlanes(pos0, pos) ==
    LET dz == pos.z - pos0.z
        dw == pos.w - pos0.w
        cn == pos.z * dw - pos.w * dz     \* c = cn / (100 * dw)
        near == Rat(-cn, 100 * dz)        \* -c / m
        far == Rat(cn, 100 * (dw - dz))   \* c / (1 - m)
    IN  IF ~(Abs(dw) > 1 /\ Abs(dz) > 1) THEN NoPlanes
        ELSE IF dz = dw \/ cn = 0 THEN NoPlanes
        ELSE IF near[1] <= near[2] \div 1000000 THEN NoPlanes
        ELSE [found |-> TRUE, nearp |-> near, farp |-> far]

RECURSIVE FirstPair(_, _, _)
FirstPair(samples, i, n) ==
    IF i > n \/ i > Len(samples) THEN NoPlanes
    ELSE LET p == PairPlanes(samples[1], samples[i])
         IN  IF p.found THEN p ELSE FirstPair(samples, i + 1, n)

\* nearp/farp as the decode loop leaves them: samples[1] is pos0, count is
\* the number of records read (numPrims, numVerts).
DerivePlanes(samples, numPosComponents, count) ==
    LET p == IF numPosComponents = 4 THEN FirstPair(samples, 2, count) ELSE NoPlanes
        pos0 == samples[1]
    IN  IF p.found THEN p
        ELSE IF pos0.z > 0 /\ pos0.w > pos0.z
             THEN [found |-> FALSE, nearp |-> Rat(pos0.z, 100), farp |-> FLT_MAX]
             ELSE p

\* ------------------------------------------------------------------ state

VARIABLES
    m_PostVSData,            \* resolved event id -> cache entry
    m_PostVSAlias,           \* alias event id -> primary event id
    m_SOBufferSize,          \* capacity of the scratch pool, in words
    m_SOBuffer,              \* TRUE when the object exists (is not NULL)
    m_SOStagingBuffer,
    m_SOPatchedIndexBuffer,
    m_SOQueryHeap,
    mapCount,                \* Map calls on m_SOStagingBuffer not yet undone
    soCounter,               \* the filled-size counter at the start of m_SOBuffer
    m_SOPatchedIndexBufferWidth,   \* bytes m_SOPatchedIndexBuffer was created with
    crashed,                 \* the process died on a null pointer
    lastCall,                \* the entry point called last, and its arguments
    log,                     \* what the last capture did, in order
    m_ActionCallback,        \* the callback the replay calls before a draw
    replay                   \* where InitPostVSBuffers(events) stands

vars == <<m_PostVSData, m_PostVSAlias, m_SOBufferSize, m_SOBuffer, m_SOStagingBuffer,
          m_SOPatchedIndexBuffer, m_SOQueryHeap, mapCount, soCounter,
          m_SOPatchedIndexBufferWidth, crashed, lastCall, log, m_ActionCallback, replay>>

range == <<m_ActionCallback, replay>>

pool == <<m_SOBufferSize, m_SOBuffer, m_SOStagingBuffer, m_SOPatchedIndexBuffer,
          m_SOQueryHeap, mapCount, soCounter, m_SOPatchedIndexBufferWidth>>

\* No aliasing at all.
ResolveAlias_None(eventId) == eventId

\* "go through any aliasing".
ResolveAlias(eventId) ==
    IF eventId \in DOMAIN m_PostVSAlias THEN m_PostVSAlias[eventId] ELSE eventId

\* The growth function of the scratch pool: at least double, at least what is
\* required.
CalcMeshOutputSize(curSize, requiredOutput) == Max(2 * curSize, requiredOutput)

\* ---------------------------------------------------------- one capture
\* A capture in progress is a record c: the entry being filled (ret), the
\* scratch pool, the function's locals and the log.  done is set by a return
\* statement.  At most one device call of a capture fails, because every
\* failure returns; c.fault names it: the pass it is in, the call, and how
\* often that call succeeds before it fails.

NoFault == [pass |-> "", op |-> "", after |-> 0]

Fault(pass, op) == [pass |-> pass, op |-> op, after |-> 0]

\* The call op of the pass the capture is in fails.
FaultAt(c, op) == c.fault.pass = c.pass /\ c.fault.op = op

Say(c, what) == [c EXCEPT !.log = Append(@, what)]

Return(c) == [c EXCEPT !.done = TRUE]

\* The step F, unless the capture has returned.  The capture so far is
\* evaluated once, as the state the step starts from.
Then(c, F(_)) == CHOOSE r \in {IF x.done THEN x ELSE F(x) : x \in {c}} : TRUE

\* A guard that rejects nothing.
OverSizeLimit_Never(size) == FALSE

\* if(m_SOBufferSize >= 0xFFFF0000ULL), in words.
OverSizeLimit(size) == size >= SOSizeLimit

\* A failure that leaves the capacity as it is.
FailedPool_KeepSize(r) == [r EXCEPT !.created = FALSE]

\* m_SOBufferSize = 0; return false;
FailedPool(r) == [r EXCEPT !.size = 0, !.created = FALSE]

\* soBufDesc.Width = m_SOBufferSize / sizeof(Vec4f): the bytes of the buffer
\* of unique indices of a pool of size words, (4 * size) / 16.
IndexBufferWidth(size) == size \div Vec4fWords

\* The four objects of the pool, in the order they are created.
PoolObjects == <<"m_SOBuffer", "m_SOStagingBuffer", "m_SOPatchedIndexBuffer",
                 "m_SOQueryHeap">>

CreateCalls == <<"Create m_SOBuffer", "Create m_SOStagingBuffer",
                 "Create m_SOPatchedIndexBuffer", "Create m_SOQueryHeap">>

\* The capture after the creations 1..k of CreateSOBuffers, the k-th of which
\* fails if the fault says so.
RECURSIVE CreateObjects(_, _)
CreateObjects(c, k) ==
    IF k > Len(PoolObjects) THEN [c EXCEPT !.created = TRUE]
    ELSE LET tried == Say(c, CreateCalls[k])
         IN  IF FaultAt(c, PoolObjects[k])
             THEN FailedPool(Say(tried, "CreateSOBuffers failed"))
             ELSE CreateObjects(
                     [tried EXCEPT !.so = @ \/ k = 1, !.staging = @ \/ k = 2,
                                   !.idx = @ \/ k = 3, !.query = @ \/ k = 4,
                                   !.idxWidth = IF k = 3 THEN IndexBufferWidth(c.size)
                                                ELSE @],
                     k + 1)

\* CreateSOBuffers; created says what it returned.  A new m_SOBuffer is
\* filled with zeros.
CreateSOBuffers(c) ==
    LET released ==
            [Say(c, IF c.mapCount > 0 THEN "Release pool, staging buffer mapped"
                    ELSE "Release pool")
                EXCEPT !.so = FALSE, !.staging = FALSE, !.idx = FALSE,
                       !.query = FALSE, !.mapCount = 0, !.counter = 0, !.idxWidth = 0]
    IN  IF OverSizeLimit(c.size)
        THEN FailedPool(Say(Say(released, "Size guard"), "CreateSOBuffers failed"))
        ELSE CreateObjects(released, 1)

\* The pool resized to exactly what is asked for, smaller or larger.
GrowFor_Exact(c, outputSize) ==
    IF c.size # outputSize
    THEN [c EXCEPT !.size = outputSize, !.recreate = TRUE, !.outputSize = outputSize,
                   !.grewFrom = IF c.recreate THEN @ ELSE c.size,
                   !.required = IF c.recreate THEN Max(@, outputSize) ELSE outputSize]
    ELSE [c EXCEPT !.outputSize = outputSize]

\* if(m_SOBufferSize < outputSize): grow the capacity and ask for a recreate.
\* grewFrom and required remember the capacity before the growth and the
\* largest size that asked for it, until the pool is recreated.
GrowFor(c, outputSize) ==
    IF c.size < outputSize
    THEN [c EXCEPT !.size = CalcMeshOutputSize(c.size, outputSize),
                   !.recreate = TRUE, !.outputSize = outputSize,
                   !.grewFrom = IF c.recreate THEN @ ELSE c.size,
                   !.required = IF c.recreate THEN Max(@, outputSize) ELSE outputSize]
    ELSE [c EXCEPT !.outputSize = outputSize]

\* CreateSOBuffers after a growth; grown lists every growth of the capture
\* with the capacity before it, the size required, the capacity asked for and
\* the capacity after it.
Recreate(c) ==
    LET r == CreateSOBuffers(c)
    IN  [r EXCEPT !.recreate = FALSE,
                  !.grown = Append(@, [before |-> c.grewFrom, required |-> c.required,
                                       asked |-> c.size, after |-> r.size,
                                       created |-> r.created])]

\* A list handed to the queue and not waited for.
Submit_NoWait(c) == Say(c, "ExecuteCommandLists")

\* list->Close(); ExecuteCommandLists; GPUSync.
Submit(c) == Say(Say(c, "ExecuteCommandLists"), "GPUSync")

\* The capture as InitPostVSBuffers starts it, before any early return.
NewCapture(eventId, d, fault) ==
    [eventId |-> eventId, d |-> d, fault |-> fault, ret |-> D3D12PostVSData,
     size |-> m_SOBufferSize, so |-> m_SOBuffer, staging |-> m_SOStagingBuffer,
     idx |-> m_SOPatchedIndexBuffer, query |-> m_SOQueryHeap, mapCount |-> mapCount,
     log |-> <<>>, done |-> FALSE, crashed |-> FALSE, pass |-> "",
     soSig |-> FALSE, pipe |-> FALSE, idxBuf |-> NULL, stride |-> 0, posidx |-> -1,
     numPosComponents |-> 0, recreate |-> FALSE, created |-> TRUE,
     outputSize |-> 0, grewFrom |-> m_SOBufferSize, required |-> 0, grown |-> <<>>,
     lastShader |-> "none", indices |-> <<>>, probes |-> 0,
     sodecls |-> [VS |-> <<>>, GS |-> <<>>], strides |-> [VS |-> 0, GS |-> 0],
     incDraws |-> <<>>,
     counter |-> soCounter, start |-> 0, soStart |-> [VS |-> 0, GS |-> 0],
     views |-> <<>>, idxWidth |-> m_SOPatchedIndexBufferWidth,
     idxFill |-> [Width |-> 0, size |-> 0]]

BothStatus(c, status) ==
    Return([c EXCEPT !.ret.vsout.status = status, !.ret.gsout.status = status])

\* The last of the bound geometry and domain shaders, as the code picks it.
LastShader(d) == IF d.ds THEN "ds" ELSE IF d.gs THEN "gs" ELSE "none"

\* The checks without the one of the instance count.
EmptyDrawStatus_IgnoreInstances(d) ==
    IF d.pipe = "none" THEN "No pipeline bound"
    ELSE IF d.pipe # "graphics" THEN "No graphics pipeline bound"
    ELSE IF ~d.vs THEN "No vertex shader in pipeline"
    ELSE IF d.numIndices = 0 THEN "Empty drawcall (0 indices/vertices)"
    ELSE ""

\* Lines 195-238: the status of a draw nothing can be captured of, "" for
\* any other draw.
EmptyDrawStatus(d) ==
    IF d.pipe = "none" THEN "No pipeline bound"
    ELSE IF d.pipe # "graphics" THEN "No graphics pipeline bound"
    ELSE IF ~d.vs THEN "No vertex shader in pipeline"
    ELSE IF d.numIndices = 0 THEN "Empty drawcall (0 indices/vertices)"
    ELSE IF d.numInstances = 0 THEN "Empty drawcall (0 instances)"
    ELSE ""

VertexStageError == "No geometry/tessellation output fetched due to error processing vertex stage."

\* Lines 195-279: the early returns, and the status the geometry/tessellation
\* result starts with.
CheckDraw(c) ==
    LET d == c.d
        status == EmptyDrawStatus(d)
        hasTopo == d.pipe = "graphics" /\ d.vs
        withTopo == IF hasTopo
                    THEN [c EXCEPT !.ret.vsin.topo = d.topo, !.ret.vsout.topo = d.topo]
                    ELSE c
    IN  IF status # "" THEN BothStatus(withTopo, status)
        ELSE [withTopo EXCEPT
                 !.pass = "VS",
                 !.lastShader = LastShader(d),
                 !.ret.gsout.status =
                    IF LastShader(d) # "none" THEN VertexStageError
                    ELSE "No geometry and no tessellation shader bound."]

\* A failed creation that sets the status and goes on.
MakeSOSig_Continue(c) ==
    IF c.d.rootSigAllowsSO THEN c
    ELSE IF FaultAt(c, "CreateRootSignature")
    THEN [Say(c, "CreateRootSignature failed") EXCEPT
             !.ret.vsout.status = "Couldn't enable stream-out in root signature"]
    ELSE [Say(c, "CreateRootSignature") EXCEPT !.soSig = TRUE]

\* Lines 281-310: a root signature that allows stream-out, if the draw's does
\* not.
MakeSOSig(c) ==
    IF c.d.rootSigAllowsSO THEN c
    ELSE IF FaultAt(c, "CreateRootSignature")
    THEN Return([Say(c, "CreateRootSignature failed") EXCEPT
                    !.ret.vsout.status = "Couldn't enable stream-out in root signature"])
    ELSE [Say(c, "CreateRootSignature") EXCEPT !.soSig = TRUE]

\* Lines 312-406: the vertex pass' declaration and patched pipeline.
VSPipe(c) ==
    LET decl == VSDecl(c.d.vsSig)
        built == [c EXCEPT !.stride = decl.stride, !.posidx = decl.posidx,
                           !.numPosComponents = decl.numPosComponents,
                           !.sodecls.VS = decl.sodecls, !.strides.VS = decl.stride]
    IN  IF FaultAt(c, "CreatePipeState")
        THEN Return([Say(built, "CreatePipeState failed") EXCEPT
                        !.soSig = FALSE,
                        !.ret.vsout.status = "Couldn't create patched graphics pipeline"])
        ELSE [Say(built, "CreatePipeState") EXCEPT !.pipe = TRUE]

\* Lines 410-421: the bytes the vertex pass can write, plus the counter.
VSSize(c) ==
    GrowFor(c, c.d.numIndices * c.d.numInstances * (c.stride \div 4) + CounterWords)

\* A recreate that does not wait for the GPU first.
VSRecreate_NoSync(c) ==
    IF ~c.recreate THEN c
    ELSE LET r == Recreate(c)
         IN  IF r.created THEN r
             ELSE Return([r EXCEPT !.ret.vsout.status =
                     "Vertex output generated bytes of data which ran out of memory"])

\* Lines 427-438 and 526-537: recreate the pool if it has to grow.  The byte
\* count in the status text is left out.
VSRecreate(c) ==
    IF ~c.recreate THEN c
    ELSE LET r == Recreate(Say(c, "GPUSync"))
         IN  IF r.created THEN r
             ELSE Return([r EXCEPT !.ret.vsout.status =
                     "Vertex output generated bytes of data which ran out of memory"])

\* A counter that is never zero.
VSBytes_AlwaysWritten(c) ==
    (IF c.d.indexed THEN Len(c.indices) ELSE c.d.numIndices)
    * c.d.numInstances * c.stride

\* numBytesWritten as the counter reads: one record per vertex drawn and
\* instance, or nothing when the draw writes nothing.
VSBytes(c) ==
    IF c.d.vsWritten
    THEN (IF c.d.indexed THEN Len(c.indices) ELSE c.d.numIndices)
         * c.d.numInstances * c.stride
    ELSE 0

\* A draw with the stream-out view of lines 453-455, 563-565, 908-910 and
\* 1113-1115: its output is appended where the filled-size counter at the
\* start of m_SOBuffer says, and the counter grows by the bytes written.
SODraw(c, written) == [c EXCEPT !.start = c.counter, !.counter = @ + written]

\* view.SizeInBytes = m_SOBufferSize - 64 (or - SizeCounterBytes), in words,
\* and SOSetTargets.
SOSetTargets(c, counterWords) ==
    [Say(c, "SOSetTargets") EXCEPT
        !.views = Append(@, [pass |-> c.pass, SizeInWords |-> c.size - counterWords])]

\* Lines 440-461: record the draw of a non-indexed drawcall.
VSDraw(c) ==
    SODraw(Say(SOSetTargets(Say(c, "ResetDebugList"), CounterWords), "Draw"), VSBytes(c))

\* The unique indices, without a look at the capacity they need.
VSIndices_NoGrow(c) ==
    LET idxdata == IdxData(c.d.ibuffer, c.d.numIndices)
    IN  [c EXCEPT !.indices = Indices(idxdata, c.d.numIndices)]

\* Lines 464-524: the unique indices, and the capacity they need.
VSIndices(c) ==
    LET idxdata == IdxData(c.d.ibuffer, c.d.numIndices)
        indices == Indices(idxdata, c.d.numIndices)
    IN  [GrowFor(c, Len(indices) * 4 * Vec4fWords) EXCEPT !.indices = indices]

\* Lines 539-628: record the draw of the unique indices and rebase the
\* drawcall's own index buffer.
VSDrawIndexed(c) ==
    LET idxdata == IdxData(c.d.ibuffer, c.d.numIndices)
        rebased == RebasedIdxData(idxdata, c.indices,
                                  StripCutValue(c.d.IBStripCutValue),
                                  c.d.ibuffer.bytewidth)
        drawn == Say(SOSetTargets(Say(Say(c, "FillBuffer m_SOPatchedIndexBuffer"),
                                      "ResetDebugList"), CounterWords), "Draw")
    IN  [SODraw(drawn, VSBytes(c)) EXCEPT
            !.idxFill = [Width |-> c.idxWidth, size |-> c.size],
            !.idxBuf = IF idxdata # <<>> THEN <<"idxBuf", c.eventId, rebased>> ELSE NULL]

\* Lines 630-661: copy the output to the staging buffer, clear the counter,
\* run the list and wait for it.
VSSubmit(c) == [Submit(Say(c, "CopyResource")) EXCEPT !.pipe = FALSE, !.counter = 0]

\* Lines 663-674: map the staging buffer.
VSMap(c) ==
    IF FaultAt(c, "Map")
    THEN Return([Say(c, "Map failed") EXCEPT
                    !.idxBuf = NULL, !.soSig = FALSE,
                    !.ret.vsout.status = "Couldn't read back vertex output data from GPU"])
    ELSE [Say(c, "Map") EXCEPT !.mapCount = @ + 1]

Unmap(c) == [Say(c, "Unmap") EXCEPT !.mapCount = @ - 1]

\* Lines 676-815: read the counter and decode the output.
VSDecode(c) ==
    LET d == c.d
        numBytesWritten == VSBytes(c)
        numPrims == numBytesWritten \div c.stride
        planes == DerivePlanes(d.vsPos, c.numPosComponents, numPrims)
        useIndices == d.indexed
        hasIdx == useIndices /\ c.idxBuf # NULL
    IN  IF numBytesWritten = 0
        THEN Return([c EXCEPT
                        !.ret = [D3D12PostVSData EXCEPT !.vsout.status =
                                    "Vertex output data from GPU contained no vertex data"],
                        !.idxBuf = NULL, !.soSig = FALSE, !.soStart.VS = c.start])
        ELSE [Unmap(c) EXCEPT
                !.soStart.VS = c.start,
                !.ret.vsin.topo = d.topo,
                !.ret.vsout = [@ EXCEPT
                    !.buf = <<"vsoutBuffer", c.eventId, numBytesWritten>>,
                    !.vertStride = c.stride,
                    !.nearPlane = planes.nearp,
                    !.farPlane = planes.farp,
                    !.useIndices = useIndices,
                    !.numVerts = d.numIndices,
                    !.instStride = IF d.instanced
                                   THEN numBytesWritten \div Max(1, d.numInstances) ELSE 0,
                    !.idxBuf = IF hasIdx THEN c.idxBuf ELSE NULL,
                    !.idxFmt = IF hasIdx
                               THEN (IF d.ibuffer.bytewidth = 2 THEN "R16_UINT"
                                     ELSE "R32_UINT")
                               ELSE @,
                    !.hasPosOut = c.posidx >= 0,
                    !.topo = d.topo]]

\* Lines 816-830: an empty vertex output signature.
VSEmpty(c) ==
    [c EXCEPT !.ret.vsin.topo = c.d.topo,
              !.ret.vsout = [@ EXCEPT !.buf = NULL, !.instStride = 0, !.vertStride = 0,
                                      !.nearPlane = Zero, !.farPlane = Zero,
                                      !.useIndices = FALSE, !.hasPosOut = FALSE,
                                      !.idxBuf = NULL, !.topo = c.d.topo]]

\* The vertex pass run whatever the signature is.
VSPass_NoEmptyCheck(c) ==
    LET sized == Then(VSPipe(c), VSSize)
        drawn == IF c.d.indexed
                 THEN Then(Then(Then(sized, VSIndices), VSRecreate), VSDrawIndexed)
                 ELSE Then(Then(sized, VSRecreate), VSDraw)
    IN  Then(Then(Then(drawn, VSSubmit), VSMap), VSDecode)

\* Lines 318-830: the vertex pass.
VSPass(c) ==
    IF c.d.vsSig = <<>> THEN VSEmpty(c)
    ELSE LET sized == Then(VSPipe(c), VSSize)
             drawn == IF c.d.indexed
                      THEN Then(Then(Then(sized, VSIndices), VSRecreate), VSDrawIndexed)
                      ELSE Then(Then(sized, VSRecreate), VSDraw)
         IN  Then(Then(Then(drawn, VSSubmit), VSMap), VSDecode)

\* The process dies: a method is called on a null pool object, or an integer
\* is divided by a zero stride.
Crash(c, what) == Return([Say(c, what) EXCEPT !.crashed = TRUE])

\* The output signature the geometry/tessellation pass is built from.
LastSig(c) == IF c.lastShader = "ds" THEN c.d.dsSig ELSE c.d.gsSig

\* lastShader->GetOutputTopology().
LastTopo(c) == IF c.lastShader = "ds" THEN c.d.dsTopo ELSE c.d.gsTopo

\* The pass started without clearing the status put there beforehand.
GSPipe_KeepStatus(c) ==
    LET decl == GSDecl(LastSig(c))
        built == [c EXCEPT !.pass = "GS",
                           !.stride = decl.stride, !.posidx = decl.posidx,
                           !.numPosComponents = decl.numPosComponents,
                           !.sodecls.GS = decl.sodecls, !.strides.GS = decl.stride,
                           !.recreate = FALSE]
        piped == [Say(built, "CreatePipeState") EXCEPT !.pipe = TRUE]
    IN  IF FaultAt(built, "CreatePipeState")
        THEN Return([Say(built, "CreatePipeState failed") EXCEPT
                        !.soSig = FALSE,
                        !.ret.gsout.status = "Couldn't create patched graphics pipeline"])
        ELSE IF piped.so THEN piped
        ELSE Crash(piped, "m_SOBuffer is NULL")

\* Lines 832-910: the geometry/tessellation pass' declaration, patched
\* pipeline and stream-out view.
GSPipe(c) ==
    LET decl == GSDecl(LastSig(c))
        built == [c EXCEPT !.pass = "GS",
                           !.ret.gsout.status = "",
                           !.stride = decl.stride, !.posidx = decl.posidx,
                           !.numPosComponents = decl.numPosComponents,
                           !.sodecls.GS = decl.sodecls, !.strides.GS = decl.stride,
                           !.recreate = FALSE]
        piped == [Say(built, "CreatePipeState") EXCEPT !.pipe = TRUE]
    IN  IF FaultAt(built, "CreatePipeState")
        THEN Return([Say(built, "CreatePipeState failed") EXCEPT
                        !.soSig = FALSE,
                        !.ret.gsout.status = "Couldn't create patched graphics pipeline"])
        ELSE IF piped.so THEN piped
        ELSE Crash(piped, "m_SOBuffer is NULL")

\* A statistics pass: the draw inside a stream-out query, run and waited for.
ProbePass(c) ==
    SODraw(Submit(Say(Say(SOSetTargets(Say(c, "ResetDebugList"), CounterWords),
                          "BeginQuery Draw EndQuery"),
                      "ResolveQueryData")),
           c.d.gsCounters[c.d.numInstances])

\* Mapping the staging buffer to read the statistics.
ProbeMap(c) ==
    IF FaultAt(c, "Map statistics") /\ c.fault.after = c.probes
    THEN Return([Say(c, "Map failed") EXCEPT
                    !.ret.gsout.status = "Couldn't get stream-out statistics"])
    ELSE [Say(c, "Map") EXCEPT !.mapCount = @ + 1, !.probes = @ + 1]

\* The pool grown for the geometry/tessellation output.  The byte count in
\* the status text is left out.
GSRecreate(c) ==
    LET r == Recreate(c)
    IN  IF r.created THEN r
        ELSE Return([r EXCEPT !.ret.gsout.status =
           "Geometry/tessellation output generated bytes of data which ran out of memory"])

\* SizeCounterBytes, in words.
SizeCounterWords(d) == AlignUp(d.numInstances * 8, 64) \div 4

\* Lines 976-998: the size the instanced output needs.
GSSizeMulti(c) ==
    LET sized == GrowFor(Unmap(c), SizeCounterWords(c.d)
                                     + c.d.prims * 3 * (c.stride \div 4))
    IN  IF sized.recreate THEN GSRecreate(sized) ELSE sized

\* incDraws lists the incremental draws with the stream-out view each is
\* recorded with, as byte offsets into m_SOBuffer.

\* Lines 1064-1082: run the list and wait for it, and start a new one with
\* the state, the patched pipeline and the patched root signature, if there
\* is one.
Flush(c) ==
    LET list == Say(Say(Say(Submit(c), "ResetDebugList"), "ApplyState"), "SetPipelineState")
    IN  IF c.soSig THEN Say(list, "SetGraphicsRootSignature") ELSE list

\* Every incremental draw counts into the first slot.
IncrementalDraw_SharedSlot(c, inst) ==
    LET view == [BufferLocation |-> 4 * SizeCounterWords(c.d),
                 BufferFilledSizeLocation |-> 0]
        drawn == [Say(Say(c, "SOSetTargets"), "Draw") EXCEPT
                     !.incDraws = Append(@, [view |-> view, InstanceCount |-> inst])]
    IN  IF inst % FlushInterval = 0 THEN Flush(drawn) ELSE drawn

\* The incremental draws all in one list.
IncrementalDraw_NoFlush(c, inst) ==
    LET view == [BufferLocation |-> 4 * SizeCounterWords(c.d),
                 BufferFilledSizeLocation |-> (inst - 1) * 8]
    IN  [Say(Say(c, "SOSetTargets"), "Draw") EXCEPT
            !.incDraws = Append(@, [view |-> view, InstanceCount |-> inst])]

\* Lines 1045-1084: the draw of the instances 1..inst, counted into slot
\* inst - 1 and written after the counters, and the flush after every
\* FlushInterval of them.
IncrementalDraw(c, inst) ==
    LET view == [BufferLocation |-> 4 * SizeCounterWords(c.d),
                 BufferFilledSizeLocation |-> (inst - 1) * 8]
        drawn == [Say(Say(c, "SOSetTargets"), "Draw") EXCEPT
                     !.incDraws = Append(@, [view |-> view, InstanceCount |-> inst])]
    IN  IF inst % FlushInterval = 0 THEN Flush(drawn) ELSE drawn

\* The loop of line 1043 (inst <= action->numInstances) from inst = first to
\* last: the first half of the iterations, then the second.
RECURSIVE IncrementalDraws(_, _, _)
IncrementalDraws(c, first, last) ==
    IF first > last \/ first > c.d.numInstances THEN c
    ELSE IF first = last THEN IncrementalDraw(c, first)
    ELSE LET mid == (first + last) \div 2
         IN  IncrementalDraws(IncrementalDraws(c, first, mid), mid + 1, last)

\* Lines 1000-1092: clear the counters, size the view of the incremental
\* draws (line 1037) and draw 1, 2, .. N instances.
GSDrawMulti(c) ==
    LET cleared == [Say(Say(c, "ResetDebugList"), "ClearUnorderedAccessViewUint") EXCEPT
                       !.counter = 0,
                       !.views = Append(@, [pass |-> c.pass,
                                            SizeInWords |-> c.size - SizeCounterWords(c.d)])]
    IN  SODraw(Submit(IncrementalDraws(cleared, 1, c.d.numInstances)), c.d.gsCounters[1])

\* Lines 913-1095: the pass of a draw with more than one instance.
GSMulti(c) ==
    IF ~c.query THEN Crash(c, "m_SOQueryHeap is NULL")
    ELSE Then(Then(ProbeMap(ProbePass(c)), GSSizeMulti), GSDrawMulti)

\* A pool that is too small is doubled, whatever the statistics ask for.
ProbeSize_Double(c) ==
    LET outputSize == c.d.prims * 3 * (c.stride \div 4)
    IN  IF c.size < outputSize
        THEN [c EXCEPT !.size = Max(2 * c.size, c.size + 1),
                       !.recreate = TRUE, !.outputSize = outputSize,
                       !.grewFrom = c.size, !.required = outputSize]
        ELSE [c EXCEPT !.outputSize = outputSize]

\* Lines 1160-1166: the size the statistics of the probe ask for.
ProbeSize(c) == GrowFor(c, c.d.prims * 3 * (c.stride \div 4))

\* Lines 1099-1186: probe, and grow and probe again until the output fits.
RECURSIVE GSProbeLoop(_)
GSProbeLoop(c) ==
    IF ~c.query THEN Crash(c, "m_SOQueryHeap is NULL")
    ELSE LET m == ProbeMap(ProbePass(c))
             sized == ProbeSize(m)
         IN  IF m.done THEN m
             ELSE IF sized.recreate THEN Then(GSRecreate(sized), GSProbeLoop)
             ELSE Unmap(sized)

\* Lines 1189-1222: copy the output to the staging buffer, run and wait.
GSSubmit(c) ==
    [Submit(Say(Say(c, "ResetDebugList"), "CopyResource")) EXCEPT
        !.pipe = FALSE, !.counter = 0]

\* Lines 1224-1234: map the staging buffer.
GSMap(c) ==
    IF FaultAt(c, "Map")
    THEN Return([Say(c, "Map failed") EXCEPT
                    !.soSig = FALSE,
                    !.ret.gsout.status =
                       "Couldn't read back geometry/tessellation output data from GPU"])
    ELSE [Say(c, "Map") EXCEPT !.mapCount = @ + 1]

\* Records that take each counter for the instance's own bytes.
InstData_Cumulative(counters, stride) ==
    [inst \in 1..Len(counters) |->
        [numVerts |-> counters[inst] \div stride,
         bufOffset |-> IF inst = 1 THEN 0 ELSE counters[inst - 1]]]

\* Lines 1242-1259: one record per instance, from the cumulative counters.
InstData(counters, stride) ==
    [inst \in 1..Len(counters) |->
        LET prevByteCount == IF inst = 1 THEN 0 ELSE counters[inst - 1]
        IN  [numVerts |-> (counters[inst] - prevByteCount) \div stride,
             bufOffset |-> prevByteCount]]

\* D3D output topology as recorded: stream-out expands strips.
ExpandedTopology(topo) ==
    IF topo = "TRIANGLESTRIP" THEN "TRIANGLELIST"
    ELSE IF topo = "LINESTRIP" THEN "LINELIST"
    ELSE IF topo = "TRIANGLESTRIP_ADJ" THEN "TRIANGLELIST_ADJ"
    ELSE IF topo = "LINESTRIP_ADJ" THEN "LINELIST_ADJ"
    ELSE topo

\* Lines 1236-1407: read the counters and decode the output.  The division
\* of line 1251 by a stride of zero kills the process or leaves a numVerts
\* that nothing reads when no byte was written.
GSDecode(c) ==
    LET d == c.d
        counters == d.gsCounters
        multi == d.numInstances > 1
        numBytesWritten == IF multi THEN counters[d.numInstances] ELSE counters[1]
        numVerts == numBytesWritten \div c.stride
        planes == DerivePlanes(d.gsPos, c.numPosComponents, numVerts)
        divides == c.stride = 0 /\ (multi \/ numBytesWritten # 0)
    IN  IF divides /\ (d.divTraps \/ numBytesWritten # 0)
        THEN Crash(c, "division by zero stride")
        ELSE IF numBytesWritten = 0
        THEN Return([Unmap(IF divides THEN Say(c, "division by zero stride") ELSE c) EXCEPT
                !.soSig = FALSE, !.soStart.GS = c.start,
                !.ret.gsout.status =
                   "No detectable output generated by geometry/tessellation shaders"])
        ELSE [Unmap(c) EXCEPT
                !.soStart.GS = c.start,
                !.ret.gsout = [@ EXCEPT
                    !.buf = <<"gsoutBuffer", c.eventId, numBytesWritten>>,
                    !.instStride = IF d.instanced
                                   THEN numBytesWritten \div Max(1, d.numInstances) ELSE 0,
                    !.vertStride = c.stride,
                    !.nearPlane = planes.nearp,
                    !.farPlane = planes.farp,
                    !.useIndices = FALSE,
                    !.hasPosOut = c.posidx >= 0,
                    !.idxBuf = NULL,
                    !.topo = ExpandedTopology(LastTopo(c)),
                    !.numVerts = IF d.instanced
                                 THEN numVerts \div Max(1, d.numInstances) ELSE numVerts,
                    !.instData = IF multi THEN InstData(counters, c.stride) ELSE <<>>]]

\* Lines 832-1407: the geometry/tessellation pass, if such a shader is bound.
GSPass(c) ==
    IF c.lastShader = "none" THEN c
    ELSE Then(Then(Then(Then(GSPipe(c),
                             LAMBDA p : IF p.d.numInstances > 1 THEN GSMulti(p)
                                        ELSE GSProbeLoop(p)),
                        GSSubmit), GSMap), GSDecode)

\* Line 1409, and the end of the function.
Finish(c) == Return([c EXCEPT !.soSig = FALSE])

\* The capture of draw d under eventId (lines 185-1410).
Capture(eventId, d, fault) ==
    Then(Then(Then(Then(CheckDraw(NewCapture(eventId, d, fault)), MakeSOSig), VSPass),
              GSPass),
         Finish)

\* ------------------------------------------------------------- the draws
\* A draw d is what InitPostVSBuffers reads of the render state, the pipeline,
\* the action and the shaders' reflection when the replay stands at the draw,
\* together with what the GPU answers for it: whether its vertex pass writes
\* anything (vsWritten), the clip-space positions it writes (vsPos, gsPos),
\* the primitives its statistics pass counts (prims) and the cumulative byte
\* counters of its instances (gsCounters).  An integer division by zero is
\* undefined: divTraps says whether the processor traps on it or goes on with
\* some quotient.

Param(name, compCount, systemValue, stream) ==
    [semanticName |-> name, compCount |-> compCount, systemValue |-> systemValue,
     stream |-> stream]

\* TEXCOORD0.xyzw and a three-component SV_Position: stride 32, position second.
PosSig == <<Param("TEXCOORD", 4, "None", 0), Param("SV_Position", 3, "Position", 0)>>

\* A geometry shader's output: SV_Position and a colour on stream 0, and a
\* parameter of stream 1: stride 32.
GeomSig == <<Param("SV_Position", 4, "Position", 0), Param("COLOR", 4, "None", 0),
             Param("EXTRA", 2, "None", 1)>>

\* n samples of a perspective projection with z = 2w - 1 (near 0.5, far 1).
Perspective(n) == [i \in 1..n |-> [w |-> 100 * i, z |-> 200 * i - 100]]

\* The largest vertex count of a draw: with the 32-byte stride of PosSig its
\* output needs the 0xFFFF0000 bytes of the size guard (plus the counter).
HugeIndices == SOSizeLimit \div 8

\* Primitives whose output (3 vertices of 32 bytes each) passes the guard.
HugePrims == SOSizeLimit \div 24 + 1

BaseDraw ==
    [pipe |-> "graphics", vs |-> TRUE, topo |-> "TRIANGLELIST",
     numIndices |-> 4, numInstances |-> 1, indexed |-> FALSE, instanced |-> FALSE,
     rootSigAllowsSO |-> TRUE, vsSig |-> PosSig,
     gs |-> FALSE, ds |-> FALSE, gsSig |-> <<>>, dsSig |-> <<>>, gsTopo |-> "UNDEFINED",
     dsTopo |-> "UNDEFINED",
     ibuffer |-> [buf |-> FALSE, data |-> <<>>, bytewidth |-> 2],
     IBStripCutValue |-> "DISABLED",
     vsWritten |-> TRUE, vsPos |-> Perspective(4),
     prims |-> 0, gsCounters |-> <<0>>, gsPos |-> <<>>, divTraps |-> TRUE]

\* Draws with nothing to capture.
EmptyDraws ==
    {[BaseDraw EXCEPT !.pipe = "none"],
     [BaseDraw EXCEPT !.pipe = "compute"],
     [BaseDraw EXCEPT !.vs = FALSE],
     [BaseDraw EXCEPT !.numIndices = 0],
     [BaseDraw EXCEPT !.numInstances = 0, !.instanced = TRUE]}

\* Draws with a vertex shader only.
VertexDraws ==
    {BaseDraw,
     [BaseDraw EXCEPT !.vsWritten = FALSE],
     [BaseDraw EXCEPT !.numIndices = 12, !.rootSigAllowsSO = FALSE,
                      !.vsPos = Perspective(12)],
     [BaseDraw EXCEPT !.numIndices = HugeIndices],
     [BaseDraw EXCEPT !.indexed = TRUE, !.numInstances = 2, !.instanced = TRUE,
                      !.ibuffer = [buf |-> TRUE, data |-> <<5, 7, 5, 6>>, bytewidth |-> 2],
                      !.IBStripCutValue = "0xFFFF"],
     [BaseDraw EXCEPT !.indexed = TRUE, !.rootSigAllowsSO = FALSE]}

\* A draw of two instances through a geometry shader.
InstancedGeometryDraw ==
    [BaseDraw EXCEPT !.gs = TRUE, !.gsSig = GeomSig, !.gsTopo = "TRIANGLESTRIP",
                     !.numInstances = 2, !.instanced = TRUE,
                     !.prims = 3, !.gsCounters = <<96, 288>>, !.gsPos = Perspective(9)]

\* Draws with a geometry or domain shader.
GeometryDraws ==
    {[BaseDraw EXCEPT !.gs = TRUE, !.gsSig = GeomSig, !.gsTopo = "TRIANGLESTRIP",
                      !.prims = 4, !.gsCounters = <<384>>, !.gsPos = Perspective(12)],
     [BaseDraw EXCEPT !.gs = TRUE, !.gsSig = GeomSig, !.gsTopo = "TRIANGLESTRIP",
                      !.prims = 0, !.gsCounters = <<0>>],
     InstancedGeometryDraw,
     [BaseDraw EXCEPT !.vsSig = <<>>, !.ds = TRUE, !.dsSig = GeomSig,
                      !.dsTopo = "TRIANGLELIST",
                      !.prims = 2, !.gsCounters = <<192>>, !.gsPos = Perspective(6)],
     [BaseDraw EXCEPT !.gs = TRUE, !.gsSig = GeomSig, !.gsTopo = "LINESTRIP",
                      !.rootSigAllowsSO = FALSE,
                      !.prims = HugePrims, !.gsCounters = <<0>>]}

Draws == EmptyDraws \cup VertexDraws \cup GeometryDraws

\* The device calls of a capture that can fail.
Faults ==
    {NoFault, Fault("VS", "CreateRootSignature"), Fault("VS", "CreatePipeState"),
     Fault("VS", "Map"), Fault("GS", "CreatePipeState"), Fault("GS", "Map statistics"),
     [Fault("GS", "Map statistics") EXCEPT !.after = 1], Fault("GS", "Map")}
    \cup {Fault(p, PoolObjects[k]) : p \in {"VS", "GS"}, k \in 1..Len(PoolObjects)}

\* --------------------------------------------------------------- the calls

\* lastCall before any call.  d, fault, pass, poolBefore, grown, sodecls (the
\* stream declaration each pass handed to its pipeline) and indices (the
\* unique indices of an indexed draw) are those of a capture, as is strides
\* (the stride each pass computed for its declaration) and incDraws (the
\* incremental draws of an instanced geometry pass); a call that
\* captures nothing leaves them as they are here.  released lists the buffers
\* ClearPostVSCache released, one element per Release call.  held says which
\* of the locals pipe and soSig of a capture point to an object that was not
\* released when the capture returned.  soStart is, for each pass that read
\* its byte counters back, the value the filled-size counter had when the draw
\* began whose output the pass read.  views lists the stream-out views the
\* capture bound, each with its pass and its size in words.  idxFill is the
\* width in bytes of m_SOPatchedIndexBuffer and the capacity of the pool when
\* the unique indices were written to it.
NoCall ==
    [op |-> "none", eventId |-> 0, resolved |-> 0, cached |-> FALSE,
     d |-> BaseDraw, fault |-> NoFault, pass |-> "", grown |-> <<>>,
     poolBefore |-> <<0, FALSE, FALSE, FALSE, FALSE, 0, 0, 0>>,
     sodecls |-> [VS |-> <<>>, GS |-> <<>>], strides |-> [VS |-> 0, GS |-> 0],
     indices |-> <<>>, released |-> <<>>, incDraws |-> <<>>,
     held |-> [pipe |-> FALSE, soSig |-> FALSE], soStart |-> [VS |-> 0, GS |-> 0],
     views |-> <<>>, idxFill |-> [Width |-> 0, size |-> 0]]

\* m_ActionCallback = NULL.
NoCallback == [installed |-> FALSE, m_Events |-> <<>>]

\* No InitPostVSBuffers(events) is running.
NoReplay == [pc |-> "idle", events |-> <<>>, at |-> 0]

Init ==
    /\ m_PostVSData = <<>>
    /\ m_PostVSAlias = <<>>
    /\ m_SOBufferSize = InitSOBufferSize
    /\ m_SOPatchedIndexBufferWidth = IndexBufferWidth(InitSOBufferSize)
    /\ m_SOBuffer = TRUE
    /\ m_SOStagingBuffer = TRUE
    /\ m_SOPatchedIndexBuffer = TRUE
    /\ m_SOQueryHeap = TRUE
    /\ mapCount = 0
    /\ soCounter = 0
    /\ crashed = FALSE
    /\ lastCall = NoCall
    /\ log = <<>>
    /\ m_ActionCallback = NoCallback
    /\ replay = NoReplay

\* A lookup that finds nothing.
IsCached_Never(eventId) == FALSE

\* m_PostVSData.find(eventId) != m_PostVSData.end()
IsCached(eventId) == eventId \in DOMAIN m_PostVSData

\* InitPostVSBuffers(eventId) with the replay standing at draw d, and the
\* device failing as fault says.
InitPostVSBuffers(eventId, d, fault) ==
    LET id == ResolveAlias(eventId)
        call == [NoCall EXCEPT !.op = "InitPostVSBuffers", !.eventId = eventId,
                               !.resolved = id]
    IN  /\ ~crashed
        /\ IF IsCached(id)
           THEN /\ lastCall' = [call EXCEPT !.cached = TRUE]
                /\ log' = <<>>
                /\ UNCHANGED <<m_PostVSData, m_PostVSAlias, pool, crashed>>
           ELSE \E c \in {Capture(id, d, fault)} :
                /\ c.mapCount <= MaxMapCount
                /\ c.counter <= MaxCounter
                /\ m_PostVSData' = (id :> c.ret) @@ m_PostVSData
                /\ m_SOBufferSize' = c.size
                /\ m_SOBuffer' = c.so
                /\ m_SOStagingBuffer' = c.staging
                /\ m_SOPatchedIndexBuffer' = c.idx
                /\ m_SOQueryHeap' = c.query
                /\ mapCount' = c.mapCount
                /\ soCounter' = c.counter
                /\ m_SOPatchedIndexBufferWidth' = c.idxWidth
                /\ crashed' = c.crashed
                /\ lastCall' = [call EXCEPT !.d = d, !.fault = fault, !.pass = c.pass,
                                            !.grown = c.grown, !.poolBefore = pool,
                                            !.sodecls = c.sodecls, !.strides = c.strides,
                                            !.indices = c.indices,
                                            !.incDraws = c.incDraws,
                                            !.held = [pipe |-> c.pipe,
                                                      soSig |-> c.soSig],
                                            !.soStart = c.soStart,
                                            !.views = c.views,
                                            !.idxFill = c.idxFill]
                /\ log' = c.log
                /\ UNCHANGED m_PostVSAlias

\* A callback that captures every draw it is called for.
PreDraw_Any(events, eid, d, fault) == InitPostVSBuffers(eid, d, fault)

\* D3D12InitPostVSCallback::PreDraw of a callback made for events.
PreDraw(events, eid, d, fault) ==
    /\ eid \in events
    /\ InitPostVSBuffers(eid, d, fault)

\* D3D12Replay::AliasPostVSBuffers.
AliasPostVSBuffers(primary, alias) ==
    m_PostVSAlias' = (alias :> primary) @@ m_PostVSAlias

\* D3D12InitPostVSCallback::AliasEvent of a callback made for events.  The
\* replay names as primary a draw that is no alias itself, and names one
\* primary per alias.
AliasEvent(events, primary, alias) ==
    /\ ~crashed
    /\ primary # alias
    /\ primary \notin DOMAIN m_PostVSAlias
    /\ \A a \in DOMAIN m_PostVSAlias : m_PostVSAlias[a] # alias
    /\ alias \in DOMAIN m_PostVSAlias => m_PostVSAlias[alias] = primary
    /\ IF primary \in events
       THEN AliasPostVSBuffers(primary, alias)
       ELSE UNCHANGED m_PostVSAlias
    /\ lastCall' = [NoCall EXCEPT !.op = "AliasEvent"]
    /\ log' = <<>>
    /\ UNCHANGED <<m_PostVSData, pool, crashed, range>>

\* The four SAFE_RELEASE of one entry: a Release call for each field that is
\* not NULL, on the object the field points to (named by the variable that
\* made it and the event it was made for).
EntryBuffers(postvs) ==
    LET held == SelectSeq(<<postvs.vsout.buf, postvs.vsout.idxBuf, postvs.gsout.buf,
                            postvs.gsout.idxBuf>>,
                          LAMBDA b : b # NULL)
    IN  [i \in 1..Len(held) |-> <<held[i][1], held[i][2]>>]

\* The loop over the entries ids of the map, in the order of their keys.
RECURSIVE ReleaseEntries(_, _)
ReleaseEntries(data, ids) ==
    IF ids = {} THEN <<>>
    ELSE LET id == CHOOSE i \in ids : \A j \in ids : i <= j
         IN  EntryBuffers(data[id]) \o ReleaseEntries(data, ids \ {id})

\* A clear that releases the buffers and leaves the entries in the map.
ClearPostVSCache_KeepEntries ==
    /\ ~crashed
    /\ lastCall' = [NoCall EXCEPT !.op = "ClearPostVSCache",
                                  !.released = ReleaseEntries(m_PostVSData,
                                                              DOMAIN m_PostVSData)]
    /\ log' = <<>>
    /\ UNCHANGED <<m_PostVSData, m_PostVSAlias, pool, crashed, range>>

ClearPostVSCache ==
    /\ ~crashed
    /\ m_PostVSData' = <<>>
    /\ lastCall' = [NoCall EXCEPT !.op = "ClearPostVSCache",
                                  !.released = ReleaseEntries(m_PostVSData,
                                                              DOMAIN m_PostVSData)]
    /\ log' = <<>>
    /\ UNCHANGED <<m_PostVSAlias, pool, crashed, range>>

\* A lookup under the event id as given.
LookupPostVS_Unresolved(eventId) ==
    IF eventId \in DOMAIN m_PostVSData THEN m_PostVSData[eventId] ELSE D3D12PostVSData

\* Lines 1467-1478: postvs, the entry GetPostVSBuffers reads.
LookupPostVS(eventId) ==
    LET id == ResolveAlias(eventId)
    IN  IF id \in DOMAIN m_PostVSData THEN m_PostVSData[id] ELSE D3D12PostVSData

\* A descriptor that never looks at the per-instance records.
MeshFormat_NoOverride(st, instID) ==
    LET hasIdx == st.useIndices /\ st.idxBuf # NULL
    IN  [indexResourceId |-> IF hasIdx THEN st.idxBuf ELSE NULL,
         indexByteStride |-> IF hasIdx THEN (IF st.idxFmt = "R16_UINT" THEN 2 ELSE 4) ELSE 0,
         indexByteSize |-> IF hasIdx THEN -1 ELSE 0,
         indexByteOffset |-> 0,
         baseVertex |-> 0,
         vertexResourceId |-> st.buf,
         vertexByteSize |-> IF st.buf # NULL THEN -1 ELSE 0,
         vertexByteOffset |-> st.instStride * instID,
         vertexByteStride |-> st.vertStride,
         topology |-> st.topo,
         numIndices |-> st.numVerts,
         unproject |-> st.hasPosOut,
         nearPlane |-> st.nearPlane,
         farPlane |-> st.farPlane,
         status |-> st.status]

\* The MeshFormat of a stage's result (lines 1480-1536).
MeshFormat(st, instID) ==
    LET hasIdx == st.useIndices /\ st.idxBuf # NULL
        perInst == instID < Len(st.instData)
    IN  [indexResourceId |-> IF hasIdx THEN st.idxBuf ELSE NULL,
         indexByteStride |-> IF hasIdx THEN (IF st.idxFmt = "R16_UINT" THEN 2 ELSE 4) ELSE 0,
         indexByteSize |-> IF hasIdx THEN -1 ELSE 0,
         indexByteOffset |-> 0,
         baseVertex |-> 0,
         vertexResourceId |-> st.buf,
         vertexByteSize |-> IF st.buf # NULL THEN -1 ELSE 0,
         vertexByteOffset |-> IF perInst THEN st.instData[instID + 1].bufOffset
                              ELSE st.instStride * instID,
         vertexByteStride |-> st.vertStride,
         topology |-> st.topo,
         numIndices |-> IF perInst THEN st.instData[instID + 1].numVerts ELSE st.numVerts,
         unproject |-> st.hasPosOut,
         nearPlane |-> st.nearPlane,
         farPlane |-> st.farPlane,
         status |-> st.status]

\* The MeshFormat GetPostVSBuffers returns in the current state.
GetPostVSBuffers(eventId, instID, stage) ==
    MeshFormat(GetStage(LookupPostVS(eventId), stage), instID)

InstIds == 0..2

\* A read that makes the entry it does not find.
ReadPostVSBuffers_Creating(eventId) ==
    /\ ~crashed
    /\ m_PostVSData' = (ResolveAlias(eventId) :> LookupPostVS(eventId)) @@ m_PostVSData
    /\ lastCall' = [NoCall EXCEPT !.op = "GetPostVSBuffers", !.eventId = eventId,
                                  !.resolved = ResolveAlias(eventId)]
    /\ log' = <<>>
    /\ UNCHANGED <<m_PostVSAlias, pool, crashed, range>>

\* A call of GetPostVSBuffers for eventId, whatever instance and stage it
\* asks for.
ReadPostVSBuffers(eventId) ==
    /\ ~crashed
    /\ lastCall' = [NoCall EXCEPT !.op = "GetPostVSBuffers", !.eventId = eventId,
                                  !.resolved = ResolveAlias(eventId)]
    /\ log' = <<>>
    /\ UNCHANGED <<m_PostVSData, m_PostVSAlias, pool, crashed, range>>

\* The events a callback is made for: one draw, or the whole frame.
EventLists == {{e} : e \in EventIds} \cup {EventIds}

\* The draws the cache and the aliases are followed with, each with the device
\* call that fails in its capture: a draw without indices, and a draw of two
\* instances through a geometry shader, captured or failing at the staging map
\* of the vertex pass.
CacheInputs ==
    {<<[BaseDraw EXCEPT !.numIndices = 0], NoFault>>,
     <<InstancedGeometryDraw, NoFault>>,
     <<InstancedGeometryDraw, Fault("VS", "Map")>>}

Next ==
    \/ \E events \in EventLists, e \in EventIds, in \in CacheInputs :
          PreDraw(events, e, in[1], in[2]) /\ UNCHANGED range
    \/ \E events \in EventLists, p \in EventIds, a \in EventIds : AliasEvent(events, p, a)
    \/ ClearPostVSCache
    \/ \E e \in EventIds : ReadPostVSBuffers(e)

\* The session of many draws, results and aliases.
Spec == Init /\ [][Next]_vars

\* The one event the captures of SpecDraw are made for.
FirstEvent == CHOOSE e \in EventIds : \A f \in EventIds : e <= f

\* A capture of any draw under any fault, the cache cleared in between.
NextDraw ==
    \/ /\ ~IsCached(FirstEvent)
       /\ \E d \in Draws, f \in Faults : InitPostVSBuffers(FirstEvent, d, f)
       /\ UNCHANGED range
    \/ ClearPostVSCache

\* The session of captures of every kind of draw against the one pool.
SpecDraw == Init /\ [][NextDraw]_vars

\* ------------------------------------------------- draws of every shape
\* The draws the declaration builder, the index rebaser, the per-instance
\* decode and the near/far inference are followed with: every signature, index
\* buffer, counter array and sample list within the bounds.

\* Parameters of an output signature.
MaxSigLen == 3

\* Indices of an index buffer.
MaxIndexCount == 3

\* Instances of an instanced draw.
MaxInstances == 5

\* Clip-space samples a pass writes.
MaxSamples == 3

\* Capacity (in words) of a scratch pool that every one of these draws fits.
DataSOBufferSize == 4096

\* Flushes inside the incremental draws of one capture.
MaxFlushes == 2

SeqsUpTo(S, n) == UNION {[1..k -> S] : k \in 0..n}

SigParams ==
    {Param("SV_Position", 3, "Position", 0), Param("SV_Position", 4, "Position", 1),
     Param("TEXCOORD", 2, "None", 0), Param("COLOR", 4, "None", 0),
     Param("NORMAL", 3, "None", 1), Param("FOG", 1, "None", 0)}

Signatures == SeqsUpTo(SigParams, MaxSigLen)

\* A draw whose vertex and geometry shaders both have the output signature
\* sig; the geometry shader emits nothing.
SignatureDraw(sig) ==
    [BaseDraw EXCEPT !.vsSig = sig, !.gs = TRUE, !.gsSig = sig,
                     !.gsTopo = "TRIANGLELIST", !.prims = 0, !.gsCounters = <<0>>]

\* The values an index of bytewidth bytes is drawn from: 0, a gap, and the
\* largest values of 16 and 32 bits.
IndexValues(bytewidth) == IF bytewidth = 2 THEN {0, 5, 7, 65535} ELSE {0, 7, 65535, -1}

StripCutValues == {"DISABLED", "0xFFFF", "0xFFFFFFFF"}

\* The bound index buffers.
IndexBuffers ==
    {[buf |-> TRUE, data |-> data, bytewidth |-> bw] :
        bw \in {2}, data \in SeqsUpTo(IndexValues(2), MaxIndexCount)}
    \cup {[buf |-> TRUE, data |-> data, bytewidth |-> bw] :
        bw \in {4}, data \in SeqsUpTo(IndexValues(4), MaxIndexCount)}

\* An indexed draw of the whole of ibuffer and over indices more; the vertex
\* shader writes one position per unique index.
IndexedDraw(ibuffer, cut, over) ==
    LET numIndices == Len(ibuffer.data) + over
    IN  [BaseDraw EXCEPT !.indexed = TRUE, !.ibuffer = ibuffer, !.IBStripCutValue = cut,
                         !.numIndices = numIndices,
                         !.vsPos = Perspective(MaxIndexCount + 1)]

\* Vertices one instance writes.
InstanceVerts == {0, 3, 6}

RECURSIVE Cumulative(_, _)
Cumulative(counts, stride) ==
    IF counts = <<>> THEN <<>>
    ELSE LET before == Cumulative(SubSeq(counts, 1, Len(counts) - 1), stride)
             prev == IF before = <<>> THEN 0 ELSE before[Len(before)]
         IN  Append(before, prev + counts[Len(counts)] * stride)

RECURSIVE SumSeq(_)
SumSeq(q) == IF q = <<>> THEN 0 ELSE Head(q) + SumSeq(Tail(q))

\* The vertex counts of the instances of a draw of 2..MaxInstances instances.
InstanceCounts == {q \in SeqsUpTo(InstanceVerts, MaxInstances) : Len(q) >= 2}

\* An instanced draw through a geometry shader (stride 32) whose instance
\* inst emits counts[inst] vertices: counter inst reads what the instances
\* 1..inst wrote together.
InstancesDraw(counts) ==
    [BaseDraw EXCEPT !.gs = TRUE, !.gsSig = GeomSig, !.gsTopo = "TRIANGLELIST",
                     !.numInstances = Len(counts), !.instanced = TRUE,
                     !.vsPos = Perspective(4 * MaxInstances + 4),
                     !.prims = SumSeq(counts) \div 3,
                     !.gsCounters = Cumulative(counts, 32),
                     !.gsPos = Perspective(6 * MaxInstances + 6)]

\* Clip-space positions [w, z] in hundredths.
SamplePoints ==
    {[w |-> 100, z |-> 50], [w |-> 200, z |-> 75], [w |-> 100, z |-> 100],
     [w |-> 200, z |-> 300], [w |-> 200, z |-> 150], [w |-> 200, z |-> 100],
     [w |-> 300, z |-> 500]}

SampleLists == {q \in SeqsUpTo(SamplePoints, MaxSamples) : Len(q) >= 2}

\* A draw of one vertex per sample through a geometry shader that passes the
\* vertices on: both passes write the positions samples.
SamplesDraw(samples) ==
    [BaseDraw EXCEPT !.numIndices = Len(samples), !.vsPos = samples,
                     !.gs = TRUE, !.gsSig = GeomSig, !.gsTopo = "POINTLIST",
                     !.prims = Len(samples), !.gsCounters = <<Len(samples) * 32>>,
                     !.gsPos = samples]

\* The replay with a scratch pool of DataSOBufferSize words.
InitData ==
    /\ m_PostVSData = <<>>
    /\ m_PostVSAlias = <<>>
    /\ m_SOBufferSize = DataSOBufferSize
    /\ m_SOPatchedIndexBufferWidth = IndexBufferWidth(DataSOBufferSize)
    /\ m_SOBuffer = TRUE
    /\ m_SOStagingBuffer = TRUE
    /\ m_SOPatchedIndexBuffer = TRUE
    /\ m_SOQueryHeap = TRUE
    /\ mapCount = 0
    /\ soCounter = 0
    /\ crashed = FALSE
    /\ lastCall = NoCall
    /\ log = <<>>
    /\ m_ActionCallback = NoCallback
    /\ replay = NoReplay

\* The capture of draw d, new to the cache, on a device that does not fail.
CaptureData(d) ==
    /\ ~IsCached(FirstEvent)
    /\ InitPostVSBuffers(FirstEvent, d, NoFault)
    /\ UNCHANGED range

\* Draws whose vertex shader has an empty output signature: without and with
\* a geometry shader, one or two instances, the root signature allowing
\* stream-out or not.
EmptySignatureDraws ==
    {[BaseDraw EXCEPT !.vsSig = <<>>],
     [BaseDraw EXCEPT !.vsSig = <<>>, !.rootSigAllowsSO = FALSE],
     [BaseDraw EXCEPT !.vsSig = <<>>, !.rootSigAllowsSO = FALSE,
                      !.gs = TRUE, !.gsSig = GeomSig, !.gsTopo = "TRIANGLESTRIP",
                      !.prims = 2, !.gsCounters = <<192>>, !.gsPos = Perspective(6)],
     [InstancedGeometryDraw EXCEPT !.vsSig = <<>>]}

\* Instanced draws through a geometry shader whose output is all on stream 1,
\* so that nothing is declared for stream 0 and nothing is written.
ZeroStrideDraws ==
    {[BaseDraw EXCEPT !.gs = TRUE, !.gsSig = <<Param("NORMAL", 3, "None", 1)>>,
                      !.gsTopo = "TRIANGLELIST", !.numInstances = 2, !.instanced = TRUE,
                      !.prims = 0, !.gsCounters = <<0, 0>>, !.divTraps = t] :
        t \in BOOLEAN}

\* The instance counts that end with the last flush, and go one beyond it.
FlushingCounts == {MaxFlushes * FlushInterval + r : r \in {0, 1}}

\* A draw of n instances through a geometry shader, without vertex output;
\* the first instance emits one triangle and the others nothing.
FlushingDraw(n, allowsSO) ==
    [BaseDraw EXCEPT !.vsSig = <<>>, !.rootSigAllowsSO = allowsSO,
                     !.gs = TRUE, !.gsSig = GeomSig,
                     !.gsTopo = "TRIANGLELIST", !.numInstances = n, !.instanced = TRUE,
                     !.prims = 1, !.gsCounters = [i \in 1..n |-> 96],
                     !.gsPos = Perspective(3)]

\* Draws with a domain shader that writes positions only (stride 16), alone
\* and together with a geometry shader that adds a colour (stride 32).
TessellatedDraws ==
    {[BaseDraw EXCEPT !.ds = TRUE, !.dsSig = <<Param("SV_Position", 4, "Position", 0)>>,
                      !.dsTopo = "POINTLIST", !.gs = g, !.gsSig = IF g THEN GeomSig ELSE <<>>,
                      !.gsTopo = IF g THEN "TRIANGLESTRIP" ELSE "UNDEFINED",
                      !.prims = 2, !.gsCounters = <<96>>, !.gsPos = Perspective(6)] :
        g \in BOOLEAN}

\* Every draw of these shapes; a draw of no index at all is left to the empty
\* draws.
DataDraws ==
    {d \in EmptySignatureDraws \cup ZeroStrideDraws \cup TessellatedDraws
            \cup {SignatureDraw(sig) : sig \in Signatures}
            \cup {IndexedDraw(ibuffer, cut, over) :
                    ibuffer \in IndexBuffers, cut \in StripCutValues, over \in {0, 1}}
            \cup {InstancesDraw(counts) : counts \in InstanceCounts}
            \cup {SamplesDraw(samples) : samples \in SampleLists} :
        d.numIndices > 0}

NextData ==
    \/ \E d \in DataDraws : CaptureData(d)
    \/ ClearPostVSCache

\* The session of captures of draws of every shape.
SpecData == InitData /\ [][NextData]_vars

\* The instanced draws through a geometry shader: of a few instances that
\* emit any number of vertices, and of so many that the incremental draws are
\* flushed.
InstancedDraws ==
    {InstancesDraw(counts) : counts \in InstanceCounts}
    \cup {FlushingDraw(n, allowsSO) : n \in FlushingCounts, allowsSO \in BOOLEAN}

NextInstanced ==
    \/ \E d \in InstancedDraws : CaptureData(d)
    \/ ClearPostVSCache

\* The session of captures of instanced draws.
SpecInstanced == InitData /\ [][NextInstanced]_vars

\* ------------------------------------------- InitPostVSBuffers(events)
\* The event ids of the frame a range of draws is captured from.
MaxRangeEvent == 3

RangeEventIds == 1..MaxRangeEvent

\* The lists of events a range capture is asked for: not empty, in the order
\* of the frame.
RangeLists ==
    {s \in UNION {[1..n -> RangeEventIds] : n \in 1..MaxRangeEvent} :
        \A i \in 1..(Len(s) - 1) : s[i] < s[i + 1]}

\* The draw a range is replayed over, captured without a failure.
RangeInputs == {<<InstancedGeometryDraw, NoFault>>}

\* m_Events as the set contains() is asked of.
EventSet(m_Events) == {m_Events[i] : i \in DOMAIN m_Events}

\* InitPostVSBuffers(events) is entered: ReplayLog(0, events.front(),
\* eReplay_WithoutDraw) starts at the first draw of the frame.
RangeBegin(events) ==
    /\ ~crashed
    /\ replay.pc = "idle"
    /\ replay' = [pc |-> "before", events |-> events, at |-> 1]
    /\ lastCall' = [NoCall EXCEPT !.op = "ReplayLog"]
    /\ log' = <<>>
    /\ UNCHANGED <<m_PostVSData, m_PostVSAlias, pool, crashed, m_ActionCallback>>

\* The replay executes its next draw: a draw before events.front() in the
\* first ReplayLog, a draw of events.front()..events.back() in the second.
\* The callback registered with the device is called just before the draw.
ReplayDraw(d, fault) ==
    LET e == replay.at
        last == IF replay.pc = "before" THEN replay.events[1] - 1
                ELSE replay.events[Len(replay.events)]
    IN  /\ ~crashed
        /\ replay.pc \in {"before", "range"}
        /\ e <= last
        /\ \/ /\ m_ActionCallback.installed
              /\ PreDraw(EventSet(m_ActionCallback.m_Events), e, d, fault)
           \/ /\ ~m_ActionCallback.installed \/ e \notin EventSet(m_ActionCallback.m_Events)
              /\ lastCall' = [NoCall EXCEPT !.op = "Draw", !.eventId = e]
              /\ log' = <<>>
              /\ UNCHANGED <<m_PostVSData, m_PostVSAlias, pool, crashed>>
        /\ replay' = [replay EXCEPT !.at = e + 1]
        /\ UNCHANGED m_ActionCallback

\* D3D12InitPostVSCallback cb(m_pDevice, this, events), once the first
\* ReplayLog has returned: the constructor registers the callback.  The
\* second ReplayLog starts at events.front().
InstallCallback ==
    /\ ~crashed
    /\ replay.pc = "before"
    /\ replay.at = replay.events[1]
    /\ m_ActionCallback' = [installed |-> TRUE, m_Events |-> replay.events]
    /\ replay' = [replay EXCEPT !.pc = "range"]
    /\ lastCall' = [NoCall EXCEPT !.op = "D3D12InitPostVSCallback"]
    /\ log' = <<>>
    /\ UNCHANGED <<m_PostVSData, m_PostVSAlias, pool, crashed>>

\* The replay finds a draw that repeats another one and tells the callback
\* registered with the device, if there is one.
ReplayAlias(primary, alias) ==
    /\ replay.pc \in {"before", "range"}
    /\ IF m_ActionCallback.installed
       THEN AliasEvent(EventSet(m_ActionCallback.m_Events), primary, alias)
       ELSE /\ ~crashed
            /\ lastCall' = [NoCall EXCEPT !.op = "Alias"]
            /\ log' = <<>>
            /\ UNCHANGED <<m_PostVSData, m_PostVSAlias, pool, crashed, range>>

\* The second ReplayLog has returned and InitPostVSBuffers(events) returns:
\* ~D3D12InitPostVSCallback sets m_ActionCallback to NULL.
RangeEnd ==
    /\ ~crashed
    /\ replay.pc = "range"
    /\ replay.at > replay.events[Len(replay.events)]
    /\ m_ActionCallback' = NoCallback
    /\ replay' = [replay EXCEPT !.pc = "idle"]
    /\ lastCall' = [NoCall EXCEPT !.op = "~D3D12InitPostVSCallback"]
    /\ log' = <<>>
    /\ UNCHANGED <<m_PostVSData, m_PostVSAlias, pool, crashed>>

NextRange ==
    \/ \E events \in RangeLists : RangeBegin(events)
    \/ \E in \in RangeInputs : ReplayDraw(in[1], in[2])
    \/ InstallCallback
    \/ \E p \in RangeEventIds, a \in RangeEventIds : ReplayAlias(p, a)
    \/ RangeEnd
    \/ replay.pc = "idle" /\ ClearPostVSCache

\* The session of range captures.
SpecRange == Init /\ [][NextRange]_vars

\* ------------------------------------------- the buffer of unique indices
\* Indexed draws of the whole of a buffer of 16-bit indices that do not
\* descend, or of one index more, whose vertex shader writes one component:
\* the unique indices need more of the pool than the vertices.
SmallStrideDraws ==
    {[IndexedDraw(ib, "DISABLED", over) EXCEPT !.vsSig = <<Param("FOG", 1, "None", 0)>>] :
        ib \in {b \in IndexBuffers :
                  /\ b.bytewidth = 2
                  /\ \A i \in 1..(Len(b.data) - 1) : b.data[i] <= b.data[i + 1]},
        over \in {0, 1}}

\* A capture of an indexed draw on a device whose creation of the buffer of
\* unique indices may fail; the cache cleared in between.
NextIndexed ==
    \/ /\ ~IsCached(FirstEvent)
       /\ \E d \in SmallStrideDraws,
             f \in {NoFault, Fault("VS", "m_SOPatchedIndexBuffer")} :
             InitPostVSBuffers(FirstEvent, d, f)
       /\ UNCHANGED range
    \/ ClearPostVSCache

\* The session of captures of indexed draws against the initial pool.
SpecIndexed == Init /\ [][NextIndexed]_vars

\* ------------------------------------------------------------- properties

\* The primary the alias table gives for an event id.
Primary(e) == IF e \in DOMAIN m_PostVSAlias THEN m_PostVSAlias[e] ELSE e

\* The state is the one a capture has just returned to.
Captured == lastCall.op = "InitPostVSBuffers" /\ ~lastCall.cached

\* The entry of the last capture request.
Entry == m_PostVSData[lastCall.resolved]

\* The last capture did what.
Said(what) == \E i \in DOMAIN log : log[i] = what

VSOutOfMemory == "Vertex output generated bytes of data which ran out of memory"

GSOutOfMemory ==
    "Geometry/tessellation output generated bytes of data which ran out of memory"

\* C1: a capture request for a draw identifier whose (alias-resolved) cache
\* entry exists returns at once: the cache, the aliases and the scratch pool
\* are unchanged, nothing is submitted or recreated (the request's log is
\* empty), and GetPostVSBuffers returns the same descriptor for every
\* instance and stage before and after -- whatever status the entry holds.
C1_CachedRequestIsNoOp ==
    [][\A e \in EventIds :
          (/\ lastCall'.op = "InitPostVSBuffers"
           /\ lastCall'.eventId = e
           /\ Primary(e) \in DOMAIN m_PostVSData)
          => /\ UNCHANGED <<m_PostVSData, m_PostVSAlias, pool, crashed>>
             /\ log' = <<>>
             /\ \A i \in InstIds, st \in Stages :
                   GetPostVSBuffers(e, i, st)' = GetPostVSBuffers(e, i, st)]_vars

\* C1's case: a second request for a draw whose first capture failed.
C1_Witness ==
    /\ lastCall.op = "InitPostVSBuffers"
    /\ lastCall.cached
    /\ lastCall.resolved \in DOMAIN m_PostVSData
    /\ m_PostVSData[lastCall.resolved].vsout.status
          = "Couldn't read back vertex output data from GPU"

\* C2: once alias b -> a is recorded, GetPostVSBuffers(b, inst, stage) is
\* GetPostVSBuffers(a, inst, stage) for every instance and stage, in every
\* state.
C2_AliasReadsPrimary ==
    \A b \in DOMAIN m_PostVSAlias, i \in InstIds, st \in Stages :
        GetPostVSBuffers(b, i, st) = GetPostVSBuffers(m_PostVSAlias[b], i, st)

\* C2's case: b has an entry of its own, the alias b -> a was recorded, and
\* only then was a captured, with a different result that has per-instance
\* data.
C2_Witness ==
    \E b \in DOMAIN m_PostVSAlias :
        LET a == m_PostVSAlias[b]
        IN  /\ Captured
            /\ lastCall.resolved = a
            /\ a \in DOMAIN m_PostVSData
            /\ b \in DOMAIN m_PostVSData
            /\ m_PostVSData[a] # m_PostVSData[b]
            /\ GetPostVSBuffers(b, 1, "GSOut").vertexByteOffset > 0

\* C3: a capture request for e looks up and creates the entry under the
\* primary of e and under no other id: no other entry appears or changes, an
\* alias gets no entry of its own, nothing is captured when the primary has
\* an entry, and afterwards a read of an alias returns the descriptor of the
\* entry under its primary.
C3_ResolveBeforeLookup ==
    [][\A e \in EventIds :
          (lastCall'.op = "InitPostVSBuffers" /\ lastCall'.eventId = e)
          => /\ DOMAIN m_PostVSData' = DOMAIN m_PostVSData \cup {Primary(e)}
             /\ \A x \in DOMAIN m_PostVSData : m_PostVSData'[x] = m_PostVSData[x]
             /\ Primary(e) \in DOMAIN m_PostVSData => log' = <<>> /\ UNCHANGED pool
             /\ \A b \in DOMAIN m_PostVSAlias', i \in InstIds, st \in Stages :
                   GetPostVSBuffers(b, i, st)'
                     = MeshFormat(
                         GetStage(IF m_PostVSAlias'[b] \in DOMAIN m_PostVSData'
                                  THEN m_PostVSData'[m_PostVSAlias'[b]]
                                  ELSE D3D12PostVSData, st), i)]_vars

\* C3's case: a capture requested under an alias has just made the entry of
\* the primary, and the alias has none.
C3_Witness ==
    /\ Captured
    /\ lastCall.eventId \in DOMAIN m_PostVSAlias
    /\ lastCall.resolved = m_PostVSAlias[lastCall.eventId]
    /\ lastCall.resolved # lastCall.eventId
    /\ lastCall.resolved \in DOMAIN m_PostVSData
    /\ lastCall.eventId \notin DOMAIN m_PostVSData

\* C4 as stated: after a call of GetPostVSBuffers the cache holds an entry
\* for the (alias-resolved) draw.
C4_GetTriggersCapture ==
    lastCall.op = "GetPostVSBuffers" => Primary(lastCall.eventId) \in DOMAIN m_PostVSData

\* C4: GetPostVSBuffers only reads.  It changes neither the cache, the
\* aliases nor the pool, and returns the descriptor of the entry under the
\* alias-resolved id when there is one, and the descriptor of an empty result
\* (no buffer, no status) when there is none.
C4_GetOnlyReads ==
    [][\A e \in EventIds :
          (lastCall'.op = "GetPostVSBuffers" /\ lastCall'.eventId = e)
          => /\ UNCHANGED <<m_PostVSData, m_PostVSAlias, pool, crashed>>
             /\ \A i \in InstIds, st \in Stages :
                   GetPostVSBuffers(e, i, st)
                     = IF Primary(e) \in DOMAIN m_PostVSData
                       THEN MeshFormat(GetStage(m_PostVSData[Primary(e)], st), i)
                       ELSE MeshFormat(EmptyStage, i)]_vars

\* C4's case: GetPostVSBuffers was called for a draw without an entry, and
\* there is still none.
C4_Witness ==
    /\ lastCall.op = "GetPostVSBuffers"
    /\ Primary(lastCall.eventId) \notin DOMAIN m_PostVSData
    /\ GetPostVSBuffers(lastCall.eventId, 0, "VSOut").status = ""
    /\ GetPostVSBuffers(lastCall.eventId, 0, "VSOut").vertexResourceId = NULL

\* The draws C5 is about.
IsEmptyDraw(d) ==
    d.numIndices = 0 \/ d.numInstances = 0 \/ d.pipe # "graphics" \/ ~d.vs

\* C5: the capture of a draw with zero indices/vertices or zero instances,
\* with no pipeline, a non-graphics pipeline or no vertex shader sets the
\* same non-empty status on the vertex and the geometry/tessellation result,
\* attaches no buffer, does nothing on the GPU (its log is empty) and leaves
\* the scratch pool as it was.
C5_EmptyDrawNoWork ==
    (Captured /\ IsEmptyDraw(lastCall.d))
    => /\ Entry.vsout.status # ""
       /\ Entry.gsout.status = Entry.vsout.status
       /\ Entry.vsout.buf = NULL /\ Entry.vsout.idxBuf = NULL
       /\ Entry.gsout.buf = NULL /\ Entry.gsout.idxBuf = NULL
       /\ log = <<>>
       /\ pool = lastCall.poolBefore
       /\ ~crashed

\* C5's case: a draw of zero instances has been captured.
C5_Witness ==
    /\ Captured
    /\ lastCall.d.numInstances = 0
    /\ lastCall.d.numIndices > 0
    /\ Entry.vsout.status = "Empty drawcall (0 instances)"

\* The statuses of a vertex pass that failed.
VertexFailures ==
    {"Couldn't enable stream-out in root signature",
     "Couldn't create patched graphics pipeline",
     VSOutOfMemory,
     "Couldn't read back vertex output data from GPU",
     "Vertex output data from GPU contained no vertex data"}

\* C6 as stated: when the vertex pass of a draw with a geometry or domain
\* shader fails, the geometry/tessellation pass is attempted all the same.
C6_VertexFailureStillTriesGeometry ==
    (Captured /\ LastShader(lastCall.d) # "none" /\ Entry.vsout.status \in VertexFailures)
    => lastCall.pass = "GS"

\* C6: a failure of the vertex pass ends the capture: the geometry/
\* tessellation pass is not attempted, and its result has no buffer and the
\* status set before the vertex pass -- or no status at all when the vertex
\* pass wrote no data, which resets the whole entry.  A geometry/tessellation
\* pass that is attempted finds the vertex result without a failure status
\* and, for a non-empty vertex signature, with its buffer, and leaves it so
\* whether it fails or not.
C6_FailureScope ==
    Captured
    => /\ Entry.vsout.status \in VertexFailures
          => /\ lastCall.pass = "VS"
             /\ Entry.gsout.buf = NULL
             /\ Entry.gsout.status =
                   IF Entry.vsout.status
                         = "Vertex output data from GPU contained no vertex data"
                   THEN ""
                   ELSE IF LastShader(lastCall.d) # "none" THEN VertexStageError
                   ELSE "No geometry and no tessellation shader bound."
       /\ lastCall.pass = "GS"
          => /\ Entry.vsout.status = ""
             /\ lastCall.d.vsSig # <<>>
                => /\ Entry.vsout.buf # NULL
                   /\ Entry.vsout.numVerts = lastCall.d.numIndices
                   /\ Entry.vsout.topo = lastCall.d.topo

\* C6's case: the staging map of the vertex pass failed for a draw with a
\* geometry shader.
C6_Witness ==
    /\ Captured
    /\ LastShader(lastCall.d) # "none"
    /\ Entry.vsout.status = "Couldn't read back vertex output data from GPU"
    /\ Entry.gsout.status = VertexStageError
    /\ lastCall.pass = "VS"

\* C7: a recreation of the pool at a capacity of 0xFFFF0000 bytes or more
\* creates nothing; and when a recreation fails, by the size guard or by a
\* creation that fails, the capacity is zero, the result of the pass being
\* computed has the out-of-memory status and no buffer, the process is alive
\* and the failure is the last thing the capture did.
C7_FailedRecreate ==
    Captured
    => /\ \A k \in DOMAIN lastCall.grown :
             lastCall.grown[k].asked >= SOSizeLimit
             => /\ ~lastCall.grown[k].created
                /\ Said("Size guard")
       /\ Said("Size guard")
          => /\ Len(log) >= 3
             /\ log[Len(log) - 1] = "Size guard"
             /\ log[Len(log) - 2] \in {"Release pool", "Release pool, staging buffer mapped"}
       /\ Said("CreateSOBuffers failed")
          => /\ log[Len(log)] = "CreateSOBuffers failed"
             /\ m_SOBufferSize = 0
             /\ ~crashed
             /\ IF lastCall.pass = "VS"
                THEN Entry.vsout.status = VSOutOfMemory /\ Entry.vsout.buf = NULL
                ELSE Entry.gsout.status = GSOutOfMemory /\ Entry.gsout.buf = NULL

\* C7's case: the size guard has refused a recreation of a pool that had a
\* capacity.
C7_Witness ==
    /\ Captured
    /\ Said("Size guard")
    /\ lastCall.poolBefore[1] > 0
    /\ m_SOBufferSize = 0

\* C8 as stated: a growth for more than double the capacity leaves a pool of
\* at least the required size and at least twice the capacity before.
C8_GrowthAlwaysLarger ==
    Captured
    => \A k \in DOMAIN lastCall.grown :
          LET g == lastCall.grown[k]
          IN  g.required > 2 * g.before
              => g.after >= g.required /\ g.after >= 2 * g.before

\* C8: a growth for more than double the capacity leaves a pool of at least
\* the required size and at least twice the capacity before when the pool is
\* recreated, and a pool of capacity zero when the recreation fails; the
\* capture's last growth is the capacity the pool is left with.
C8_GrowthUnlessFailed ==
    Captured
    => \A k \in DOMAIN lastCall.grown :
          LET g == lastCall.grown[k]
          IN  /\ g.required > 2 * g.before
                 => IF g.created
                    THEN g.after >= g.required /\ g.after >= 2 * g.before
                    ELSE g.after = 0
              /\ k = Len(lastCall.grown) => m_SOBufferSize = g.after

\* C8's case: a pool with a capacity has grown for more than double of it.
C8_Witness ==
    /\ Captured
    /\ \E k \in DOMAIN lastCall.grown :
          LET g == lastCall.grown[k]
          IN  g.before > 0 /\ g.required > 2 * g.before /\ g.created
              /\ m_SOBufferSize >= g.required

C10_MapsUndone ==
    Captured => mapCount = 0 /\ ~Said("Release pool, staging buffer mapped")

\* The entry a signature parameter is to be captured with.
Declared(sign) ==
    [SemanticName |-> sign.semanticName,
     ComponentCount |-> IF sign.systemValue = "Position" THEN 4 ELSE sign.compCount]

HasPosition(sig) == \E i \in 1..Len(sig) : sig[i].systemValue = "Position"

\* decls is sig with a position parameter moved to the front, captured with
\* four components, and every other parameter in the order of sig.
PositionFirst(sig, decls) ==
    /\ Len(decls) = Len(sig)
    /\ \E p \in 1..Len(sig) :
          /\ sig[p].systemValue = "Position"
          /\ decls[1] = [SemanticName |-> sig[p].semanticName, ComponentCount |-> 4]
          /\ \A i \in 2..Len(sig) :
                decls[i] = Declared(sig[IF i <= p THEN i - 1 ELSE i])

\* The parameters of stream 0.
Stream0(sig) == SelectSeq(sig, LAMBDA sign : sign.stream = 0)

\* The last capture built the vertex pass' declaration.
BuiltVS ==
    /\ Captured
    /\ lastCall.pass # ""
    /\ lastCall.d.vsSig # <<>>
    /\ lastCall.fault # Fault("VS", "CreateRootSignature") \/ lastCall.d.rootSigAllowsSO

\* The last capture built the geometry/tessellation pass' declaration.
BuiltGS == Captured /\ lastCall.pass = "GS"

\* The output signature of the last capture's geometry/tessellation stage.
CallLastSig == IF lastCall.d.ds THEN lastCall.d.dsSig ELSE lastCall.d.gsSig

\* C11 as stated: whenever the signature of a pass has a clip-space position,
\* the declaration built for that pass has a position first, with four
\* components, and the other captured fields in their original order.
C11_PositionFirst ==
    /\ (BuiltVS /\ HasPosition(lastCall.d.vsSig))
          => PositionFirst(lastCall.d.vsSig, lastCall.sodecls.VS)
    /\ (BuiltGS /\ HasPosition(CallLastSig))
          => PositionFirst(Stream0(CallLastSig), lastCall.sodecls.GS)

\* C11: the vertex pass declares every parameter of the signature, the
\* geometry/tessellation pass those of stream 0 only; when the declared
\* parameters include a clip-space position, the declaration has a position
\* first, with exactly four components whatever its declared width, and every
\* other parameter in its original relative order; without one, the
\* declaration is the declared parameters in their order.
C11_PositionFirstOfStream0 ==
    /\ BuiltVS =>
          IF HasPosition(lastCall.d.vsSig)
          THEN PositionFirst(lastCall.d.vsSig, lastCall.sodecls.VS)
          ELSE lastCall.sodecls.VS
                 = [i \in 1..Len(lastCall.d.vsSig) |-> Declared(lastCall.d.vsSig[i])]
    /\ BuiltGS =>
          LET sig0 == Stream0(CallLastSig)
          IN  IF HasPosition(sig0)
              THEN PositionFirst(sig0, lastCall.sodecls.GS)
              ELSE lastCall.sodecls.GS = [i \in 1..Len(sig0) |-> Declared(sig0[i])]

\* C11's case: a three-component position declared last, after a parameter
\* of stream 1, is captured first and with four components by both passes.
C11_Witness ==
    /\ BuiltVS
    /\ BuiltGS
    /\ lastCall.d.gsSig = <<Param("TEXCOORD", 2, "None", 0), Param("NORMAL", 3, "None", 1),
                            Param("SV_Position", 3, "Position", 0)>>
    /\ lastCall.d.vsSig = lastCall.d.gsSig
    /\ lastCall.sodecls.VS = <<[SemanticName |-> "SV_Position", ComponentCount |-> 4],
                               [SemanticName |-> "TEXCOORD", ComponentCount |-> 2],
                               [SemanticName |-> "NORMAL", ComponentCount |-> 3]>>
    /\ lastCall.sodecls.GS = <<[SemanticName |-> "SV_Position", ComponentCount |-> 4],
                               [SemanticName |-> "TEXCOORD", ComponentCount |-> 2]>>

\* a is below b as 32-bit unsigned values.
Before(a, b) == (a >= 0 /\ b < 0) \/ ((a >= 0) = (b >= 0) /\ a < b)

\* The last capture went through the index rebaser.
RebasedCapture == BuiltVS /\ lastCall.d.indexed /\ lastCall.fault = NoFault

\* The indices the last capture read from the index buffer.
ReadIndices ==
    LET d == lastCall.d
    IN  SubSeq(d.ibuffer.data, 1, Min(d.numIndices, Len(d.ibuffer.data)))

\* The index values the draw references: those read, and 0 for every index
\* the draw reads past the end of the buffer.
Referenced ==
    {ReadIndices[i] : i \in 1..Len(ReadIndices)}
    \cup (IF lastCall.d.numIndices > Len(ReadIndices) THEN {0} ELSE {})

\* C12: for every index buffer the unique-index array is strictly ascending
\* (as unsigned values) and holds exactly the referenced index values, and the
\* old->new remap is a bijection from the referenced values onto
\* 0..uniqueCount-1.
C12_RemapIsBijection ==
    RebasedCapture =>
        LET indices == lastCall.indices
            uniqueCount == Len(indices)
        IN  /\ \A i \in 1..uniqueCount, j \in 1..uniqueCount :
                  i < j => Before(indices[i], indices[j])
            /\ {indices[i] : i \in 1..uniqueCount} = Referenced
            /\ \A v \in Referenced, u \in Referenced :
                  IndexRemap(indices, v) = IndexRemap(indices, u) => v = u
            /\ {IndexRemap(indices, v) : v \in Referenced} = 0..(uniqueCount - 1)

\* C12's case: 4-byte indices with a duplicate, given in descending order,
\* the largest of them 0xFFFFFFFF.
C12_Witness ==
    /\ RebasedCapture
    /\ lastCall.d.ibuffer.bytewidth = 4
    /\ ReadIndices = <<-1, 7, 7>>
    /\ lastCall.indices = <<7, -1>>
    /\ IndexRemap(lastCall.indices, -1) = 1

\* The rewritten index buffer of the last capture's entry.
Rewritten == Entry.vsout.idxBuf[3]

\* The last capture rewrote an index buffer.
RewroteIndices == RebasedCapture /\ lastCall.d.vsWritten /\ Entry.vsout.idxBuf # NULL

\* Position i of the rewritten buffer points at the unique index that is the
\* original value.
PointsAtOriginal(i) ==
    /\ Rewritten[i] + 1 \in DOMAIN lastCall.indices
    /\ lastCall.indices[Rewritten[i] + 1] = ReadIndices[i]

\* C13 as stated: a value equal to the restart sentinel of the index width
\* (0xFFFF for 2-byte, 0xFFFFFFFF for 4-byte indices) is unchanged, and any
\* other position i has unique[rewritten[i]] = original[i].
C13_RoundTripByWidth ==
    RewroteIndices =>
        /\ Len(Rewritten) = Len(ReadIndices)
        /\ \A i \in 1..Len(Rewritten) :
              IF ReadIndices[i] = (IF lastCall.d.ibuffer.bytewidth = 2 THEN 65535 ELSE -1)
              THEN Rewritten[i] = ReadIndices[i]
              ELSE PointsAtOriginal(i)

\* The restart sentinel configured in the pipeline of the last capture; none
\* is the empty set.
ConfiguredCut ==
    IF lastCall.d.IBStripCutValue = "0xFFFF" THEN {65535}
    ELSE IF lastCall.d.IBStripCutValue = "0xFFFFFFFF" THEN {-1}
    ELSE {}

\* C13: a value equal to the restart sentinel configured in the pipeline
\* (IBStripCutValue: 0xFFFF, 0xFFFFFFFF or none) is unchanged, and any other
\* position i has unique[rewritten[i]] = original[i].
C13_RoundTripByPipeline ==
    RewroteIndices =>
        /\ Len(Rewritten) = Len(ReadIndices)
        /\ \A i \in 1..Len(Rewritten) :
              IF ReadIndices[i] \in ConfiguredCut
              THEN Rewritten[i] = ReadIndices[i]
              ELSE PointsAtOriginal(i)

\* C13's case: 2-byte indices with a gap and the configured sentinel 0xFFFF
\* between them.
C13_Witness ==
    /\ RewroteIndices
    /\ lastCall.d.ibuffer.bytewidth = 2
    /\ lastCall.d.IBStripCutValue = "0xFFFF"
    /\ ReadIndices = <<7, 65535, 5>>
    /\ lastCall.indices = <<5, 7, 65535>>
    /\ Rewritten = <<1, 65535, 0>>

\* The last capture decoded the geometry/tessellation output of a draw of
\* more than one instance.
DecodedInstances ==
    /\ BuiltGS
    /\ lastCall.d.numInstances > 1
    /\ Entry.gsout.buf # NULL

\* cumulativeCounter[N] of the last capture, 0 for N = 0.
CumulativeCounter(N) == IF N = 0 THEN 0 ELSE lastCall.d.gsCounters[N]

\* C14: after a multi-instance geometry/tessellation capture there is one
\* record per instance; the record of instance N (1-based) has vertex count
\* (cumulativeCounter[N] - cumulativeCounter[N-1]) / stride and byte offset
\* cumulativeCounter[N-1], and the output buffer holds cumulativeCounter[last]
\* bytes.
C14_InstanceRecords ==
    DecodedInstances =>
        LET gsout == Entry.gsout
            n == lastCall.d.numInstances
        IN  /\ Len(gsout.instData) = n
            /\ \A N \in 1..n :
                  /\ gsout.instData[N].numVerts
                        = (CumulativeCounter(N) - CumulativeCounter(N - 1))
                            \div gsout.vertStride
                  /\ gsout.instData[N].bufOffset = CumulativeCounter(N - 1)
            /\ gsout.buf[3] = CumulativeCounter(n)

\* C14's case: five instances of 3 vertices each, stride 32.
C14_Witness ==
    /\ DecodedInstances
    /\ lastCall.d.gsCounters = <<96, 192, 288, 384, 480>>
    /\ Entry.gsout.vertStride = 32
    /\ Entry.gsout.instData
          = <<[numVerts |-> 3, bufOffset |-> 0], [numVerts |-> 3, bufOffset |-> 96],
              [numVerts |-> 3, bufOffset |-> 192], [numVerts |-> 3, bufOffset |-> 288],
              [numVerts |-> 3, bufOffset |-> 384]>>
    /\ Entry.gsout.buf[3] = 480

\* The last capture decoded the clip-space positions of both passes.
DecodedSamples ==
    /\ BuiltGS
    /\ Entry.vsout.buf # NULL
    /\ Entry.gsout.buf # NULL
    /\ Entry.vsout.hasPosOut
    /\ Entry.gsout.hasPosOut
    /\ lastCall.d.numInstances = 1
    /\ Len(lastCall.d.vsPos) = lastCall.d.numIndices
    /\ lastCall.d.gsPos = lastCall.d.vsPos

\* The positions both passes wrote.
Samples == lastCall.d.vsPos

\* C15: the two samples (w=1, z=0.5) and (w=2, z=0.75) imply m=0.25, c=0.25
\* and a near plane of -1.0; the pair is rejected and the stage result keeps
\* the default near plane 0.1 and far plane 100.
C15_RejectedPairKeepsDefaults ==
    (DecodedSamples /\ Samples = <<[w |-> 100, z |-> 50], [w |-> 200, z |-> 75]>>)
        => /\ Entry.vsout.nearPlane = Rat(1, 10)
           /\ Entry.vsout.farPlane = Rat(100, 1)
           /\ Entry.gsout.nearPlane = Rat(1, 10)
           /\ Entry.gsout.farPlane = Rat(100, 1)

\* Sample i against sample 0 (Samples[1]): the differences of w and z, and
\* the numerator of c = cn / (100 * dw), in hundredths.
SampleDw(i) == Samples[i].w - Samples[1].w

SampleDz(i) == Samples[i].z - Samples[1].z

SampleCn(i) == Samples[i].z * SampleDw(i) - Samples[i].w * SampleDz(i)

\* Sample i differs from sample 0 by more than 0.01 in z and in w, m # 1,
\* c # 0 and the near plane -c/m is positive.
AcceptedPair(i) ==
    /\ Abs(SampleDw(i)) > 1
    /\ Abs(SampleDz(i)) > 1
    /\ SampleDz(i) # SampleDw(i)
    /\ SampleCn(i) # 0
    /\ (SampleCn(i) < 0) = (SampleDz(i) > 0)

\* The planes of a stage result are those sample i gives with sample 0:
\* near = -c/m, far = c/(1-m).
PlanesOfPair(st, i) ==
    /\ st.nearPlane = Rat(-SampleCn(i), 100 * SampleDz(i))
    /\ st.farPlane = Rat(SampleCn(i), 100 * (SampleDw(i) - SampleDz(i)))

\* The planes of a stage result are not derived from a pair: the defaults,
\* or the near plane of sample 0 with an infinite far plane.
PlanesOfNoPair(st) ==
    \/ st.nearPlane = Rat(1, 10) /\ st.farPlane = Rat(100, 1)
    \/ st.nearPlane = Rat(Samples[1].z, 100) /\ st.farPlane = FLT_MAX

\* C16: scanning the samples 1..n against sample 0, the first pair that
\* differs by more than 0.01 in both z and w, has m # 1 and c # 0 and gives a
\* positive near plane decides the result: near = -c/m and far = c/(1-m)
\* (0.5 and 1.0 for m=2, c=-1); if no pair is accepted the result is not
\* derived from any pair.
C16_FirstAcceptedPairDecides ==
    DecodedSamples =>
        LET A == {i \in 2..Len(Samples) : AcceptedPair(i)}
        IN  \A st \in {Entry.vsout, Entry.gsout} :
               IF A = {} THEN PlanesOfNoPair(st)
               ELSE PlanesOfPair(st, CHOOSE i \in A : \A j \in A : i <= j)

\* C16's case: sample 0 is (w=1, z=1); the pair with (w=2, z=1.5) gives a
\* negative near plane and is passed over, the pair with (w=2, z=3) has m=2,
\* c=-1 and gives near 0.5 and far 1.0.
C16_Witness ==
    /\ DecodedSamples
    /\ Samples = <<[w |-> 100, z |-> 100], [w |-> 200, z |-> 150], [w |-> 200, z |-> 300]>>
    /\ ~AcceptedPair(2)
    /\ AcceptedPair(3)
    /\ Entry.vsout.nearPlane = <<1, 2>>
    /\ Entry.vsout.farPlane = <<1, 1>>
    /\ Entry.gsout.nearPlane = <<1, 2>>
    /\ Entry.gsout.farPlane = <<1, 1>>

\* The stage results of a cache entry.
StageResults(postvs) == {postvs.vsin, postvs.vsout, postvs.gsout}

\* C17: in every cache state, a stage result of an entry that has a status
\* message has no output buffer and no index buffer.
C17_StatusMeansNoBuffer ==
    \A id \in DOMAIN m_PostVSData : \A st \in StageResults(m_PostVSData[id]) :
        st.status # "" => st.buf = NULL /\ st.idxBuf = NULL

\* C17's case: the geometry/tessellation pass fails at the staging map, after
\* the vertex pass attached its buffer.
C17_Witness ==
    /\ Captured
    /\ lastCall.fault = Fault("GS", "Map")
    /\ Entry.gsout.status = "Couldn't read back geometry/tessellation output data from GPU"
    /\ Entry.gsout.buf = NULL
    /\ Entry.vsout.status = ""
    /\ Entry.vsout.buf # NULL

\* The last capture was of a draw whose vertex shader has an empty output
\* signature.
EmptySignatureCapture ==
    /\ Captured
    /\ lastCall.pass # ""
    /\ lastCall.d.vsSig = <<>>
    /\ lastCall.fault = NoFault

\* The places of what in the log.
Places(what) == {i \in DOMAIN log : log[i] = what}

\* The last capture recorded and ran no vertex pass: the only patched pipeline
\* is the one of the geometry/tessellation stage, if such a stage is bound,
\* and nothing but the root signature precedes it.
NoVertexPassWork ==
    /\ Cardinality(Places("CreatePipeState"))
          = (IF lastCall.d.gs \/ lastCall.d.ds THEN 1 ELSE 0)
    /\ \A i \in DOMAIN log :
          (\A k \in Places("CreatePipeState") : i < k) => log[i] = "CreateRootSignature"

\* The vertex-stage result of the empty signature, but for its status, and
\* the geometry/tessellation pass run if such a stage is bound.
EmptySignatureResult ==
    /\ Entry.vsout.vertStride = 0
    /\ Entry.vsout.buf = NULL
    /\ Entry.vsout.idxBuf = NULL
    /\ NoVertexPassWork
    /\ IF lastCall.d.gs \/ lastCall.d.ds
       THEN /\ lastCall.pass = "GS"
            /\ Entry.gsout.status # VertexStageError
       ELSE Entry.gsout.status = "No geometry and no tessellation shader bound."

\* C18 as stated: an empty vertex output signature gives a vertex-stage
\* result with a "no output" status message, stride zero and no buffer, no
\* vertex-pass GPU work, and the geometry/tessellation stage still runs.
C18_EmptySignatureHasStatus ==
    EmptySignatureCapture => Entry.vsout.status # "" /\ EmptySignatureResult

\* C18: an empty vertex output signature gives a vertex-stage result with an
\* empty status message, stride zero and no buffer; no vertex-pass GPU work
\* is issued, and the geometry/tessellation stage still runs if one is bound.
C18_EmptySignatureNoStatus ==
    EmptySignatureCapture => Entry.vsout.status = "" /\ EmptySignatureResult

\* C18's case: an empty vertex output signature in front of a geometry shader
\* whose output is captured.
C18_Witness ==
    /\ EmptySignatureCapture
    /\ lastCall.d.gs
    /\ Entry.vsout.status = ""
    /\ Entry.vsout.vertStride = 0
    /\ Entry.vsout.buf = NULL
    /\ Entry.gsout.status = ""
    /\ Entry.gsout.buf # NULL
    /\ log[1] = "CreateRootSignature"
    /\ log[2] = "CreatePipeState"

\* The last capture read a vertex-pass byte counter of zero.
VSZeroBytes ==
    /\ Captured
    /\ lastCall.pass = "VS"
    /\ lastCall.d.vsSig # <<>>
    /\ lastCall.fault.pass # "VS"
    /\ ~lastCall.d.vsWritten

\* The byte counter the geometry/tessellation decode of the last capture
\* reads the total from.
LastCounter ==
    lastCall.d.gsCounters[IF lastCall.d.numInstances > 1 THEN lastCall.d.numInstances
                          ELSE 1]

\* The last capture read a geometry/tessellation byte counter of zero: it
\* ended by mapping the staging buffer and undoing the map.
GSZeroBytes ==
    /\ Captured
    /\ lastCall.pass = "GS"
    /\ ~crashed
    /\ Len(log) >= 2
    /\ log[Len(log) - 1] = "Map"
    /\ log[Len(log)] = "Unmap"
    /\ LastCounter = 0

\* C19 as stated: a byte counter of zero gives a stage result with an empty
\* status message and no buffer.
C19_ZeroBytesIsEmptySuccess ==
    /\ VSZeroBytes => Entry.vsout.status = "" /\ Entry.vsout.buf = NULL
    /\ GSZeroBytes => Entry.gsout.status = "" /\ Entry.gsout.buf = NULL

\* C19: a byte counter of zero gives a stage result with no buffer and a
\* status message that says so.  In the vertex pass the rest of the entry is
\* reset and the capture ends there; in the geometry/tessellation pass the
\* vertex-stage result stays as it was computed.
C19_ZeroBytesHasStatus ==
    /\ VSZeroBytes =>
          Entry = [D3D12PostVSData EXCEPT !.vsout.status =
                      "Vertex output data from GPU contained no vertex data"]
    /\ GSZeroBytes =>
          /\ Entry.gsout.status
                = "No detectable output generated by geometry/tessellation shaders"
          /\ Entry.gsout.buf = NULL
          /\ Entry.gsout.idxBuf = NULL
          /\ Entry.gsout.instData = <<>>
          /\ Entry.vsout.status = ""
          /\ lastCall.d.vsSig # <<>> => Entry.vsout.buf # NULL

\* C19's case: the vertex pass of a draw writes nothing.
C19_Witness ==
    /\ VSZeroBytes
    /\ log[Len(log)] = "Map"
    /\ Entry.vsout.status = "Vertex output data from GPU contained no vertex data"
    /\ Entry.vsout.buf = NULL
    /\ Entry.gsout.status = ""

\* The stage result a read of (e, stage) is answered from: the cached one, or
\* one with nothing in it.
CachedStage(e, stage) ==
    IF Primary(e) \notin DOMAIN m_PostVSData THEN EmptyStage
    ELSE IF stage = "VSOut" THEN m_PostVSData[Primary(e)].vsout
    ELSE m_PostVSData[Primary(e)].gsout

\* C20: GetPostVSBuffers(eventId, instID, stage): when
\* instID is less than the number of per-instance records of the stage, the
\* descriptor's vertex byte offset and vertex count are that record's byte
\* offset and vertex count; otherwise the offset is the per-instance stride
\* times instID and the count is the stage's vertex count.
C20_PerInstanceOverride ==
    \A e \in EventIds, instID \in InstIds, stage \in Stages :
        LET st == CachedStage(e, stage)
            ret == GetPostVSBuffers(e, instID, stage)
        IN  IF instID < Len(st.instData)
            THEN /\ ret.vertexByteOffset = st.instData[instID + 1].bufOffset
                 /\ ret.numIndices = st.instData[instID + 1].numVerts
            ELSE /\ ret.vertexByteOffset = st.instStride * instID
                 /\ ret.numIndices = st.numVerts

\* C20's case: a draw of two instances through a geometry shader has been
\* captured and is read: instance 1 of the geometry stage has its own record
\* (6 vertices at byte 96, not at the stride of 144), instance 2 has none, and
\* the vertex stage has no records at all.
C20_Witness ==
    /\ lastCall.op = "GetPostVSBuffers"
    /\ Primary(lastCall.eventId) \in DOMAIN m_PostVSData
    /\ Len(CachedStage(lastCall.eventId, "GSOut").instData) = 2
    /\ GetPostVSBuffers(lastCall.eventId, 1, "GSOut").vertexByteOffset = 96
    /\ GetPostVSBuffers(lastCall.eventId, 1, "GSOut").numIndices = 6
    /\ GetPostVSBuffers(lastCall.eventId, 2, "GSOut").vertexByteOffset = 288
    /\ GetPostVSBuffers(lastCall.eventId, 2, "GSOut").numIndices = 4
    /\ GetPostVSBuffers(lastCall.eventId, 1, "VSOut").vertexByteOffset = 128
    /\ GetPostVSBuffers(lastCall.eventId, 1, "VSOut").numIndices = 4

\* ------------------------------------------------------------------- C21

\* The fields of the entries of the cache that hold a buffer.
HeldFields ==
    {f \in (DOMAIN m_PostVSData) \X {"vsout", "gsout"} \X {"buf", "idxBuf"} :
        m_PostVSData[f[1]][f[2]][f[3]] # NULL}

\* The object a field points to.
HeldObject(f) ==
    LET b == m_PostVSData[f[1]][f[2]][f[3]] IN <<b[1], b[2]>>

\* How often b was released by the call that made the primed state.
TimesReleased(b) ==
    Cardinality({i \in DOMAIN lastCall'.released : lastCall'.released[i] = b})

\* C21: after ClearPostVSCache no event id has a cache entry, every buffer a
\* former entry held has been released exactly once and nothing else has,
\* GetPostVSBuffers returns a descriptor without buffers for every event id,
\* and the next capture request, for whatever event id, is not answered from
\* the cache but makes the entry anew.
C21_ClearEmptiesAndReleases ==
    [][/\ lastCall'.op = "ClearPostVSCache" =>
            /\ DOMAIN m_PostVSData' = {}
            /\ \A f \in HeldFields : TimesReleased(HeldObject(f)) = 1
            /\ \A f, g \in HeldFields : HeldObject(f) = HeldObject(g) => f = g
            /\ \A i \in DOMAIN lastCall'.released :
                  \E f \in HeldFields : lastCall'.released[i] = HeldObject(f)
            /\ \A e \in EventIds, i \in InstIds, st \in Stages :
                  /\ GetPostVSBuffers(e, i, st)'.vertexResourceId = NULL
                  /\ GetPostVSBuffers(e, i, st)'.indexResourceId = NULL
       /\ lastCall.op = "ClearPostVSCache" /\ lastCall'.op = "InitPostVSBuffers" =>
            /\ ~lastCall'.cached
            /\ DOMAIN m_PostVSData' = {lastCall'.resolved}]_vars

\* A clear has released the vertex and the geometry buffers of two entries.
C21_Witness ==
    /\ lastCall.op = "ClearPostVSCache"
    /\ Len(lastCall.released) >= 4
    /\ \E i, j \in DOMAIN lastCall.released :
          /\ lastCall.released[i][1] = "vsoutBuffer"
          /\ lastCall.released[j][1] = "gsoutBuffer"
          /\ lastCall.released[i][2] # lastCall.released[j][2]

\* ------------------------------------------------------------------- C22

\* The places of the log where CreateSOBuffers released the pool's objects.
Releases ==
    {i \in DOMAIN log : log[i] \in {"Release pool", "Release pool, staging buffer mapped"}}

\* At place i the GPU is idle: a GPUSync has been done before i and no command
\* list has been handed to the queue since.
IdleAt(i) ==
    \E j \in 1..(i - 1) :
        /\ log[j] = "GPUSync"
        /\ \A k \in (j + 1)..(i - 1) : log[k] # "ExecuteCommandLists"

\* C22: whenever the pool is recreated, in the vertex pass of a draw with or
\* without indices, after the statistics pass of an instanced draw or inside
\* the probe loop, a GPUSync has completed after the last ExecuteCommandLists
\* and nothing has been submitted since.
C22_RecreateOnIdleGPU == \A i \in Releases : IdleAt(i)

\* A capture that recreated the pool in its vertex pass and again in its
\* geometry pass.
C22_Witness ==
    /\ lastCall.op = "InitPostVSBuffers"
    /\ \E i, j \in Releases :
          /\ i < j
          /\ \A k \in 1..(i - 1) : log[k] # "ExecuteCommandLists"
          /\ \E k \in (i + 1)..(j - 1) : log[k] = "BeginQuery Draw EndQuery"

\* ------------------------------------------------------------------- C23

\* The places of the log where a command list was handed to the queue.
Submissions == {i \in DOMAIN log : log[i] = "ExecuteCommandLists"}

\* C23: within a capture every ExecuteCommandLists is followed at once by a
\* GPUSync: no list is reset, recorded or submitted, the staging buffer is not
\* mapped and the pool is not resized between the two.
C23_SubmitThenWait ==
    \A i \in Submissions : i < Len(log) /\ log[i + 1] = "GPUSync"

\* A capture that submitted the vertex pass, a statistics pass and the
\* geometry pass, and mapped the staging buffer after each.
C23_Witness ==
    /\ lastCall.op = "InitPostVSBuffers"
    /\ Cardinality(Submissions) >= 3
    /\ \A i \in Submissions : \E k \in (i + 2)..Len(log) : log[k] = "Map"

\* ------------------------------------------------------------------- C24

\* The passes of the last capture that built a declaration.
BuiltPasses ==
    (IF BuiltVS THEN {"VS"} ELSE {}) \cup (IF BuiltGS THEN {"GS"} ELSE {})

\* Four bytes for every component of the fields of a declaration.
DeclBytes(decls) ==
    4 * SumSeq([i \in 1..Len(decls) |-> decls[i].ComponentCount])

\* C24: the stride of the declaration of either pass is four bytes for every
\* declared component, or 4 when there is none, so it is never zero and no
\* decode divides by zero.
C24_StrideNeverZero ==
    /\ \A p \in BuiltPasses :
          /\ lastCall.strides[p] # 0
          /\ lastCall.strides[p] = IF DeclBytes(lastCall.sodecls[p]) = 0 THEN 4
                                   ELSE DeclBytes(lastCall.sodecls[p])
    /\ ~Said("division by zero stride")

\* ------------------------------------------------------------------- C25

\* The last active stage of the draw of the last capture, the geometry shader
\* coming after the domain shader.
LastActiveStage == IF lastCall.d.gs THEN "gs" ELSE "ds"

LastActiveSig == IF LastActiveStage = "gs" THEN lastCall.d.gsSig ELSE lastCall.d.dsSig

LastActiveTopo == IF LastActiveStage = "gs" THEN lastCall.d.gsTopo ELSE lastCall.d.dsTopo

\* The fields declared by decls, whatever their order.
Fields(decls) == {decls[i] : i \in DOMAIN decls}

\* C25: the geometry/tessellation pass declares the stream-0 outputs of the
\* geometry shader when one is bound, with or without a domain shader, and
\* those of the domain shader otherwise, and the topology of the result is
\* the output topology of that stage, strips expanded to lists.
C25_LastStageIsGeometryFirst ==
    BuiltGS =>
        /\ Len(lastCall.sodecls.GS) = Len(Stream0(LastActiveSig))
        /\ Fields(lastCall.sodecls.GS)
              = {Declared(sign) : sign \in Fields(Stream0(LastActiveSig))}
        /\ Entry.gsout.buf # NULL => Entry.gsout.topo = ExpandedTopology(LastActiveTopo)

\* ------------------------------------------------------------------- C26

\* The last capture ran the probe loop of a draw of one instance.
RanProbeLoop ==
    /\ Captured /\ ~crashed
    /\ lastCall.pass = "GS" /\ lastCall.d.numInstances = 1
    /\ Said("BeginQuery Draw EndQuery")

\* The places of the log where a statistics pass was recorded.
Probes == {i \in DOMAIN log : log[i] = "BeginQuery Draw EndQuery"}

\* The growths of the pool made inside the loop: those after the first probe.
LoopGrowths ==
    LET first == CHOOSE i \in Probes : \A j \in Probes : i <= j
        k == Cardinality({i \in Releases : i > first})
    IN  SubSeq(lastCall.grown, Len(lastCall.grown) - k + 1, Len(lastCall.grown))

\* What the statistics of the draw ask for, in words.
ProbeNeeds == lastCall.d.prims * 3 * (lastCall.strides.GS \div 4)

ProbeFailures ==
    {"Couldn't get stream-out statistics", GSOutOfMemory}

\* C26: the probe loop of a draw of one instance ends.  It leaves with a
\* failure status or with a pool that holds what the probe asks for; every
\* probe but the last is followed by a growth that made the pool strictly
\* larger, and as the probe answers the same every time there are at most
\* two probes.
C26_ProbeLoopTerminates ==
    RanProbeLoop =>
        /\ Cardinality(Probes) <= 2
        /\ \/ Entry.gsout.status \in ProbeFailures
           \/ m_SOBufferSize >= ProbeNeeds
        /\ \A g \in DOMAIN LoopGrowths :
              IF LoopGrowths[g].created
              THEN /\ LoopGrowths[g].after > LoopGrowths[g].before
                   /\ LoopGrowths[g].after >= ProbeNeeds
              ELSE g = Len(LoopGrowths) /\ Entry.gsout.status = GSOutOfMemory
        /\ Cardinality(Probes) - 1
              = Cardinality({g \in DOMAIN LoopGrowths : LoopGrowths[g].created})
              \/ Entry.gsout.status = "Couldn't get stream-out statistics"

\* A loop that probed, grew the pool, probed again and accepted it.
C26_Witness ==
    /\ RanProbeLoop
    /\ Cardinality(Probes) = 2
    /\ Len(LoopGrowths) = 1 /\ LoopGrowths[1].created
    /\ Entry.gsout.buf # NULL

\* ------------------------------------------------------------------- C27

\* The last capture recorded the incremental draws of an instanced draw.
RanIncremental ==
    /\ Captured /\ ~crashed
    /\ lastCall.pass = "GS" /\ lastCall.d.numInstances > 1
    /\ Said("ClearUnorderedAccessViewUint")

\* The bytes of N counters of 8 bytes, rounded up to a multiple of 64.
CounterArrayBytes(N) == ((N * 8 + 63) \div 64) * 64

\* C27: a draw of N > 1 instances is captured with N incremental draws; the
\* k-th draws the instances 1..k, counts into its own slot at byte (k - 1) * 8
\* of the counter array, and writes to the region behind the counter array,
\* 64-byte aligned, the same for every k.
C27_IncrementalDraws ==
    RanIncremental =>
        LET N == lastCall.d.numInstances
            draws == lastCall.incDraws
        IN  /\ Len(draws) = N
            /\ \A k \in 1..N :
                  /\ draws[k].InstanceCount = k
                  /\ draws[k].view.BufferFilledSizeLocation = (k - 1) * 8
                  /\ draws[k].view.BufferFilledSizeLocation + 8
                        <= draws[k].view.BufferLocation
                  /\ draws[k].view.BufferLocation = CounterArrayBytes(N)
            /\ \A j, k \in 1..Min(N, MaxInstances) :
                  j # k => draws[j].view.BufferFilledSizeLocation
                              # draws[k].view.BufferFilledSizeLocation

\* The five incremental draws of a draw of five instances, captured.
C27_Witness ==
    /\ RanIncremental
    /\ lastCall.d.numInstances = MaxInstances
    /\ Len(lastCall.incDraws) = MaxInstances
    /\ Entry.gsout.buf # NULL

\* ------------------------------------------------------------------- C28

\* The place of the log where the list of the incremental draws starts.
IncStart == CHOOSE i \in DOMAIN log : log[i] = "ClearUnorderedAccessViewUint"

\* The incremental draws recorded between the places a and b.
DrawsBetween(a, b) == Cardinality({i \in (a + 1)..(b - 1) : log[i] = "Draw"})

\* The submission before place s, or start, where the incremental draws begin.
ListStart(start, s) ==
    LET before == {start} \cup {t \in Submissions : start < t /\ t < s}
    IN  CHOOSE t \in before : \A u \in before : u <= t

\* C28: no command list of the incremental draws holds more than
\* FlushInterval draws when it is submitted, and a list that holds
\* FlushInterval draws is submitted at once after the last of them and
\* followed by the wait for the GPU and by a fresh list with the state, the
\* patched pipeline and the substitute root signature, if there is one,
\* applied again.
C28_FlushEveryThousand ==
    RanIncremental =>
        LET start == IncStart
            lists == {s \in Submissions : s > start}
        IN  \A s \in lists :
               LET held == DrawsBetween(ListStart(start, s), s)
               IN  /\ held <= FlushInterval
                   /\ held = FlushInterval =>
                         /\ log[s - 1] = "Draw"
                         /\ Len(log) >= s + 5
                         /\ SubSeq(log, s + 1, s + 4)
                               = <<"GPUSync", "ResetDebugList", "ApplyState",
                                   "SetPipelineState">>
                         /\ ~lastCall.d.rootSigAllowsSO
                               => log[s + 5] = "SetGraphicsRootSignature"

\* A draw of more instances than two lists hold: the lists were flushed
\* twice, and the draws after the second flush went to a third.
C28_Witness ==
    /\ RanIncremental
    /\ lastCall.d.numInstances > 2 * FlushInterval
    /\ Cardinality({s \in Submissions : s > IncStart /\ log[s - 1] = "Draw"}) >= 3
    /\ Entry.gsout.buf # NULL

\* ------------------------------------------------------------------- C29

\* The index buffer of the last capture holds fewer indices than the draw
\* asks for.
ReadOutOfBounds == Len(ReadIndices) < lastCall.d.numIndices

\* How often the value v occurs among the unique indices of the last capture.
Occurrences(v) ==
    Cardinality({k \in DOMAIN lastCall.indices : lastCall.indices[k] = v})

\* C29: when the index buffer supplies fewer indices than the draw asks for,
\* the unique indices start with 0 and hold 0 once; when it supplies them
\* all, every unique index is a value read from the buffer.
C29_ZeroForOutOfBounds ==
    RebasedCapture =>
        IF ReadOutOfBounds
        THEN /\ lastCall.indices # <<>>
             /\ lastCall.indices[1] = 0
             /\ Occurrences(0) = 1
        ELSE \A k \in DOMAIN lastCall.indices :
                \E i \in DOMAIN ReadIndices : ReadIndices[i] = lastCall.indices[k]

\* An out-of-bounds read of a buffer that does not hold index 0: 0 is put in
\* front of the indices read.
C29_Witness ==
    /\ RebasedCapture /\ ReadOutOfBounds
    /\ Len(ReadIndices) >= 2
    /\ Len(lastCall.indices) >= 3
    /\ \A i \in DOMAIN ReadIndices : ReadIndices[i] # 0
    /\ lastCall.indices[1] = 0

\* The events the running range capture was asked for.
Requested == EventSet(replay.events)

\* C30: during InitPostVSBuffers(events) the callback is registered only
\* once the replay up to, and without, the first requested draw has finished;
\* a capture is triggered only by the registered callback and only for a draw
\* of the requested list; an alias is recorded only for a primary of the
\* requested list; and when the range replay has finished the callback is
\* reset to none.
C30_RangeHook ==
    [][/\ m_ActionCallback.installed
          => replay.pc = "range" /\ replay.at >= replay.events[1]
       /\ m_ActionCallback'.installed /\ ~m_ActionCallback.installed
          => /\ replay.pc = "before"
             /\ replay.at = replay.events[1]
             /\ m_ActionCallback'.m_Events = replay.events
       /\ lastCall'.op = "InitPostVSBuffers"
          => /\ m_ActionCallback.installed
             /\ lastCall'.eventId = replay.at
             /\ lastCall'.eventId \in Requested
       /\ m_PostVSData' # m_PostVSData /\ m_PostVSData' # <<>>
          => lastCall'.op = "InitPostVSBuffers"
       /\ m_PostVSAlias' # m_PostVSAlias
          => \E a \in DOMAIN m_PostVSAlias' :
                /\ m_PostVSAlias'[a] \in Requested
                /\ m_PostVSAlias' = (a :> m_PostVSAlias'[a]) @@ m_PostVSAlias
       /\ replay.pc = "range" /\ replay'.pc = "idle"
          => /\ replay.at > replay.events[Len(replay.events)]
             /\ m_ActionCallback' = NoCallback
       /\ replay'.pc = "idle" => ~m_ActionCallback'.installed
      ]_vars

\* A range capture has finished with the callback reset: its first draw is
\* captured, a draw between its first and its last that was not asked for is
\* not, and an alias of a requested draw is recorded.
C30_Witness ==
    /\ replay.pc = "idle"
    /\ replay.events # <<>>
    /\ replay.at > replay.events[Len(replay.events)]
    /\ m_ActionCallback = NoCallback
    /\ replay.events[1] \in DOMAIN m_PostVSData
    /\ \E e \in RangeEventIds :
          /\ replay.events[1] < e /\ e < replay.events[Len(replay.events)]
          /\ e \notin Requested
          /\ e \notin DOMAIN m_PostVSData
    /\ \E a \in DOMAIN m_PostVSAlias : m_PostVSAlias[a] \in Requested

\* ------------------------------------------------------------------- C31

\* The places of the last capture's log where the scratch pool is used: the
\* output buffer bound as stream-out target or cleared, the copy to the
\* staging buffer and its map, the query and its resolve.
PoolUses ==
    {i \in DOMAIN log :
        log[i] \in {"SOSetTargets", "ClearUnorderedAccessViewUint", "CopyResource", "Map",
                    "BeginQuery Draw EndQuery", "ResolveQueryData"}}

\* The pool is whole at place i of the log: the last CreateSOBuffers before i
\* created all four objects, or there was none and the capture started with
\* four objects and a capacity.
PoolWholeAt(i) ==
    LET releases == {j \in 1..(i - 1) : log[j] \in {"Release pool",
                                                   "Release pool, staging buffer mapped"}}
    IN  IF releases = {}
        THEN /\ lastCall.poolBefore[1] > 0
             /\ \A k \in 2..5 : lastCall.poolBefore[k]
        ELSE LET last == CHOOSE j \in releases : \A k \in releases : k <= j
             IN  \E j \in (last + 1)..(i - 1) : log[j] = "Create m_SOQueryHeap"

\* C31: whenever a pass of a capture uses the scratch pool, all four pool
\* objects exist and the capacity is greater than zero; no pass calls a
\* method of a pool object that is null.
C31_PoolWholeWhenUsed ==
    Captured =>
        /\ \A i \in PoolUses : PoolWholeAt(i)
        /\ ~Said("m_SOBuffer is NULL")
        /\ ~Said("m_SOQueryHeap is NULL")

\* ------------------------------------------------------------------- C32

\* C32: every patched pipeline and every substitute root signature a capture
\* creates is released before the capture returns, on every exit path.
C32_PatchedObjectsReleased ==
    Captured /\ ~crashed => ~lastCall.held.pipe /\ ~lastCall.held.soSig

\* ------------------------------------------------------------------- C33

\* C33: a newly created output buffer being filled with zeros, every draw
\* whose byte count a pass reads back begins with the filled-size counter at
\* zero, whatever captures came before, failed ones among them.
C33_CounterStartsAtZero ==
    Captured => lastCall.soStart.VS = 0 /\ lastCall.soStart.GS = 0

\* ------------------------------------------------------------------- C34

\* The views of a pass of the last capture, and the last of them.
ViewsOf(p) == SelectSeq(lastCall.views, LAMBDA v : v.pass = p)

LastViewOf(p) == ViewsOf(p)[Len(ViewsOf(p))]

\* The geometry/tessellation pass got past its capacity check: its output was
\* copied to the staging buffer.
GSAccepted ==
    \E i \in DOMAIN log :
        /\ log[i] = "CopyResource"
        /\ \E j \in 1..(i - 1) : log[j] = "BeginQuery Draw EndQuery"

\* The words the statistics of the last capture ask for.
GSWordsNeeded == lastCall.d.prims * 3 * (lastCall.strides.GS \div 4)

\* C34: whenever a capacity check accepts the pool, the stream-out view
\* bound for the pass holds the bytes the check computed: numIndices x
\* numInstances x stride in the vertex pass, primitivesNeeded x 3 x stride in
\* the geometry/tessellation pass, of one instance or of more.
C34_ViewHoldsCheckedBytes ==
    Captured =>
        /\ \A i \in DOMAIN ViewsOf("VS") :
              ViewsOf("VS")[i].SizeInWords
                 >= lastCall.d.numIndices * lastCall.d.numInstances
                    * (lastCall.strides.VS \div 4)
        /\ GSAccepted => LastViewOf("GS").SizeInWords >= GSWordsNeeded

\* ------------------------------------------------------------------- C35

\* The last capture wrote its unique indices to m_SOPatchedIndexBuffer.
FilledIndexBuffer == Captured /\ Said("FillBuffer m_SOPatchedIndexBuffer")

\* C35: when an indexed vertex pass writes its unique indices to the
\* worst-case index buffer, the buffer is a sixteenth of the pool's capacity
\* in bytes wide, and that is at least four bytes for every unique index.
C35_UniqueIndicesFit ==
    FilledIndexBuffer =>
        /\ 16 * lastCall.idxFill.Width <= 4 * lastCall.idxFill.size
        /\ 4 * lastCall.idxFill.size < 16 * (lastCall.idxFill.Width + 1)
        /\ lastCall.idxFill.Width >= 4 * Len(lastCall.indices)

\* The pool had to grow for the unique indices alone, and they were written:
\* four of them, the index 0 of an out-of-bounds read among them.
C35_Witness ==
    /\ FilledIndexBuffer
    /\ Len(lastCall.indices) = 4
    /\ lastCall.poolBefore[1] < 16 * Len(lastCall.indices)
    /\ lastCall.poolBefore[1] >= lastCall.d.numIndices * lastCall.d.numInstances
                                 * (lastCall.strides.VS \div 4) + CounterWords

\* ------------------------------------------------------------------- C36

\* C36: GetPostVSBuffers only reads: for every draw id, known or not, an
\* alias or not, it leaves the result cache, the alias table and the scratch
\* pool as they are, and an unknown draw id has no entry afterwards either.
C36_GetIsReadOnly ==
    [][lastCall'.op = "GetPostVSBuffers"
       => /\ m_PostVSData' = m_PostVSData
          /\ m_PostVSAlias' = m_PostVSAlias
          /\ pool' = pool
          /\ \A e \in {lastCall'.eventId, Primary(lastCall'.eventId)} :
                e \notin DOMAIN m_PostVSData => e \notin DOMAIN m_PostVSData'
      ]_vars

\* GetPostVSBuffers was called for an alias whose primary has no entry, while
\* the cache is not empty: the primary still has no entry.
C36_Witness ==
    /\ lastCall.op = "GetPostVSBuffers"
    /\ lastCall.eventId \in DOMAIN m_PostVSAlias
    /\ Primary(lastCall.eventId) \notin DOMAIN m_PostVSData
    /\ m_PostVSData # <<>>

=============================================================================
